---- MODULE Spec2Model ----
(***************************************************************************)
(* Model of jscom_common.auth.cognito (the process-wide JWKS cache,        *)
(* get_jwks and validate_jwt_token) and of jscom_common.dynamodb.helpers   *)
(* (the pagination token codec and the Pydantic model conversions).        *)
(*                                                                         *)
(* Python values are represented as follows.                               *)
(*   - a str whose characters the code inspects (the Authorization header  *)
(*     value) is a sequence of atoms; an atom is a whitespace character    *)
(*     (SP, TAB) or a non-empty run of non-whitespace characters; adjacent *)
(*     non-whitespace atoms are adjacent characters of one word;           *)
(*   - an opaque str (region, pool id, client id, kid) is a TLA+ string,   *)
(*     "" is the empty str;                                                *)
(*   - a dict is a function whose DOMAIN is its key set;                   *)
(*   - None is NoneS where a str is expected, NoneSeq where a header value *)
(*     is expected and NoneD where a dict is expected.                     *)
(***************************************************************************)
EXTENDS Integers, Sequences, FiniteSets, TLC

VARIABLES
    env,          \* os.environ, fixed for the life of the process
    jwks_cache,   \* the module global _jwks_cache
    pc,           \* pc[p]: where call p stands
    call,         \* call[p]: the function called and its arguments
    loc,          \* loc[p]: the locals of the call
    result,       \* result[p]: what the call returned or raised
    hist,         \* hist[p]: what the call did (observations, not program state)
    fetches,      \* successful key-set fetches since the cache was last reset
    cache_pool,   \* the user pool whose key set the cache holds ("" when empty)
    helper,       \* the last call of a function of dynamodb.helpers
    harness       \* what the test harness has done (observations, not program state)

vars == <<env, jwks_cache, pc, call, loc, result, hist, fetches, cache_pool, helper,
          harness>>

-----------------------------------------------------------------------------
(* Bounds *)

NProcs == 2          \* call slots
MaxHdrLen == 3       \* atoms in a generated Authorization header value
MaxKeys == 2         \* entries in a fetched key list
MaxResets == 2       \* runs of the fixture that are counted
MaxFetches == 2      \* cap on the counter of successful fetches

Procs == 1 .. NProcs

-----------------------------------------------------------------------------
(* Python values *)

NoneS == "<None>"
NoneSeq == <<"<None>">>
NoneD == [none |-> TRUE]
EmptyDict == [k \in {} |-> NoneS]

SP == " "
TAB == "\t"

\* dict.get(key, default)
DictGet(d, key, default) == IF key \in DOMAIN d THEN d[key] ELSE default

\* truth value of an Optional[str]
TruthyStr(s) == s \notin {NoneS, ""}

\* truth value of an Optional header value
TruthySeq(s) == s \notin {NoneSeq, <<>>}

\* a or b, on Optional[str]
OrStr(a, b) == IF TruthyStr(a) THEN a ELSE b

\* a or b, on Optional header values
OrSeq(a, b) == IF TruthySeq(a) THEN a ELSE b

\* str.isspace() of one character
IsSpace(a) == a \in {SP, TAB}

\* str.lower() of one atom
LowerAtom(a) ==
    CASE a = "Bearer" -> "bearer"
      [] a = "BEARER" -> "bearer"
      [] a = "Basic"  -> "basic"
      [] OTHER        -> a

\* str.lower()
Lower(s) == [i \in DOMAIN s |-> LowerAtom(s[i])]

\* str.split() with no argument: the maximal runs of non-whitespace characters
RECURSIVE SplitAcc(_, _, _, _)
SplitAcc(s, i, cur, acc) ==
    IF i > Len(s)
    THEN IF cur = <<>> THEN acc ELSE Append(acc, cur)
    ELSE IF IsSpace(s[i])
         THEN SplitAcc(s, i + 1, <<>>, IF cur = <<>> THEN acc ELSE Append(acc, cur))
         ELSE SplitAcc(s, i + 1, Append(cur, s[i]), acc)

Split(s) == SplitAcc(s, 1, <<>>, <<>>)

-----------------------------------------------------------------------------
(* Outcomes of a call *)

Raise(type, msg) == [kind |-> "raise", type |-> type, msg |-> msg, value |-> NoneD]
Return(v) == [kind |-> "return", type |-> "", msg |-> "", value |-> v]
NoResult == [kind |-> "none", type |-> "", msg |-> "", value |-> NoneD]

UnauthorizedError(msg) == Raise("UnauthorizedError", msg)
ValueError(msg) == Raise("ValueError", msg)

\* jose.exceptions: ExpiredSignatureError and JWTClaimsError derive from JWTError
JWTErrorTypes == {"JWTError", "ExpiredSignatureError", "JWTClaimsError"}

-----------------------------------------------------------------------------
(* Input domains *)

\* the atoms generated header values are made of
HdrAtoms == {SP, "Bearer", "tok"}

RECURSIVE SeqsUpTo(_, _)
SeqsUpTo(S, n) ==
    IF n = 0 THEN {<<>>}
    ELSE LET shorter == SeqsUpTo(S, n - 1)
         IN  shorter \cup {Append(s, a) : s \in {t \in shorter : Len(t) = n - 1}, a \in S}

\* Authorization header values: every value of at most MaxHdrLen atoms, and
\* values with other spellings of the scheme, another scheme, a tab, a third part
HeaderValues ==
    SeqsUpTo(HdrAtoms, MaxHdrLen) \cup
    { <<"bearer", SP, "tok">>, <<"BEARER", SP, "tok">>, <<"Basic", SP, "tok">>,
      <<"Bearer", TAB, "tok">>, <<"Bearer", SP, "tok", SP, "tok">>,
      <<SP, "Bearer", SP, SP, "tok", SP>> }

HeaderNames == {"authorization", "Authorization", "AUTHORIZATION"}

\* header values tried under every spelling of the header name
SampleValues == { <<>>, <<"tok">>, <<"Bearer", SP, "tok">> }

\* header mappings: none, only another header, every value under
\* "Authorization", the sample values under each spelling, and an empty
\* lower-case header beside a capitalised one
HeaderMaps ==
    {EmptyDict, ("host" :> <<"example.com">>)} \cup
    {("Authorization" :> v) : v \in HeaderValues} \cup
    {(n :> v) : n \in HeaderNames, v \in SampleValues} \cup
    {("authorization" :> <<>>) @@ ("Authorization" :> <<"Bearer", SP, "tok">>)}

\* API Gateway events: without a "headers" key, or with a header mapping
Events == {EmptyDict} \cup {("headers" :> h) : h \in HeaderMaps}

RegionArgs == {NoneS, "us-east-1"}
PoolArgs == {NoneS, "pool-arg"}
ClientArgs == {NoneS, "client-arg"}

\* os.environ restricted to the three variables the module reads
Environments ==
    { r @@ u @@ c :
        r \in {EmptyDict, ("COGNITO_REGION" :> "eu-west-1")},
        u \in {EmptyDict, ("COGNITO_USER_POOL_ID" :> "pool-env")},
        c \in {EmptyDict, ("COGNITO_APP_CLIENT_ID" :> "client-env")} }

\* key objects of a JWKS document
KeyEntries == { [kid |-> "k1", n |-> "n1"], [kid |-> "k1", n |-> "n2"],
                [kid |-> "k2", n |-> "n1"] }

\* JSON bodies of a 2xx response: key sets of at most MaxKeys distinct keys, and
\* documents that are not key sets ({}, a key without "kid")
KeyLists == {l \in SeqsUpTo(KeyEntries, MaxKeys) :
                \A i, j \in DOMAIN l : l[i] = l[j] => i = j}
KeySets == {[keys |-> l] : l \in KeyLists}
MalformedBodies ==
    { EmptyDict, [keys |-> <<[n |-> "n1"]>>],
      [keys |-> <<[kid |-> "k2", n |-> "n1"], [n |-> "n2"]>>] }
Bodies == KeySets \cup MalformedBodies

\* what requests.get / raise_for_status / response.json() raise
FetchErrors == { Raise("ConnectionError", "connection failed"),
                 Raise("HTTPError", "404 Client Error"),
                 Raise("JSONDecodeError", "Expecting value") }

\* what jwt.get_unverified_header returns or raises
UnverifiedHeaders == { [alg |-> "RS256", kid |-> "k1"], [alg |-> "RS256", kid |-> "k2"],
                       [alg |-> "RS256", kid |-> "k3"], [alg |-> "RS256"] }
HeaderErrors == { Raise("JWTError", "Error decoding token headers.") }

\* what jwt.decode returns or raises
ClaimSets == { [sub |-> "user-123", username |-> "alice"], [sub |-> "user-456"] }
VerifyErrors == { Raise("JWTError", "Signature verification failed."),
                  Raise("ExpiredSignatureError", "Signature has expired."),
                  Raise("JWTClaimsError", "Invalid audience"),
                  Raise("JWTClaimsError", "Invalid issuer") }
EngineFaults == { Raise("JWKError", "Unable to find an algorithm for key") }

-----------------------------------------------------------------------------
(* validate_jwt_token, lines 74-98: header and configuration *)

\* headers = event.get("headers", {})
EventHeaders(event) == DictGet(event, "headers", EmptyDict)

\* auth_header = headers.get("authorization") or headers.get("Authorization")
AuthHeader(headers) ==
    OrSeq(DictGet(headers, "authorization", NoneSeq),
          DictGet(headers, "Authorization", NoneSeq))

\* if not auth_header
HeaderMissing(auth_header) == ~TruthySeq(auth_header)

\* HeaderMalformed with the defect of only rejecting too few parts
HeaderMalformedAtLeastTwo(parts) == Len(parts) < 2 \/ Lower(parts[1]) # <<"bearer">>

\* if len(parts) != 2 or parts[0].lower() != "bearer"
HeaderMalformed(parts) == Len(parts) # 2 \/ Lower(parts[1]) # <<"bearer">>

\* region or os.environ.get("COGNITO_REGION", "us-west-2")
CognitoRegion(region) == OrStr(region, DictGet(env, "COGNITO_REGION", "us-west-2"))

\* CognitoUserPoolId with the environment consulted before the argument
CognitoUserPoolIdEnvFirst(user_pool_id) ==
    OrStr(DictGet(env, "COGNITO_USER_POOL_ID", ""), OrStr(user_pool_id, ""))

\* user_pool_id or os.environ.get("COGNITO_USER_POOL_ID", "")
CognitoUserPoolId(user_pool_id) ==
    OrStr(user_pool_id, DictGet(env, "COGNITO_USER_POOL_ID", ""))

\* app_client_id or os.environ.get("COGNITO_APP_CLIENT_ID", "")
CognitoAppClientId(app_client_id) ==
    OrStr(app_client_id, DictGet(env, "COGNITO_APP_CLIENT_ID", ""))

PoolRequired ==
    "COGNITO_USER_POOL_ID environment variable or user_pool_id parameter is required"
ClientRequired ==
    "COGNITO_APP_CLIENT_ID environment variable or app_client_id parameter is required"

\* Preamble with the configuration checked before the header
PreambleConfigFirst(c) ==
    LET auth_header == AuthHeader(EventHeaders(c.event))
    IN  IF ~TruthyStr(CognitoUserPoolId(c.user_pool_id))
        THEN ValueError(PoolRequired)
        ELSE IF ~TruthyStr(CognitoAppClientId(c.app_client_id))
        THEN ValueError(ClientRequired)
        ELSE IF HeaderMissing(auth_header)
        THEN UnauthorizedError("Missing Authorization header")
        ELSE IF HeaderMalformed(Split(auth_header))
        THEN UnauthorizedError("Invalid Authorization header format")
        ELSE NoResult

\* The statements before the try block: the exception they raise, or NoResult
\* when the call goes on to the try block.
Preamble(c) ==
    LET auth_header == AuthHeader(EventHeaders(c.event))
    IN  IF HeaderMissing(auth_header)
        THEN UnauthorizedError("Missing Authorization header")
        ELSE IF HeaderMalformed(Split(auth_header))
        THEN UnauthorizedError("Invalid Authorization header format")
        ELSE IF ~TruthyStr(CognitoUserPoolId(c.user_pool_id))
        THEN ValueError(PoolRequired)
        ELSE IF ~TruthyStr(CognitoAppClientId(c.app_client_id))
        THEN ValueError(ClientRequired)
        ELSE NoResult

\* token = parts[1]
Token(event) == Split(AuthHeader(EventHeaders(event)))[2]

-----------------------------------------------------------------------------
(* validate_jwt_token, lines 131-139: the except clauses of the try block *)

\* Handlers without the catch-all clause: other exceptions propagate
HandlersNoCatchAll(e) ==
    IF e.type = "UnauthorizedError" THEN e
    ELSE IF e.type \in JWTErrorTypes THEN UnauthorizedError("Invalid or expired token")
    ELSE e

\* Handlers whose JWTError clause puts the cause in the message
HandlersLeakCause(e) ==
    IF e.type = "UnauthorizedError" THEN e
    ELSE IF e.type \in JWTErrorTypes THEN UnauthorizedError(e.msg)
    ELSE UnauthorizedError("Token validation failed")

\* Handlers without the first clause: UnauthorizedError meets the catch-all
HandlersNoReraise(e) ==
    IF e.type \in JWTErrorTypes THEN UnauthorizedError("Invalid or expired token")
    ELSE UnauthorizedError("Token validation failed")

Handlers(e) ==
    IF e.type = "UnauthorizedError" THEN e
    ELSE IF e.type \in JWTErrorTypes THEN UnauthorizedError("Invalid or expired token")
    ELSE UnauthorizedError("Token validation failed")

\* What a call observes when exception e is raised: get_jwks has no handler,
\* validate_jwt_token runs get_jwks and the verification inside its try block.
Outcome(fn, e) == IF fn = "validate_jwt_token" THEN Handlers(e) ELSE e

-----------------------------------------------------------------------------
(* get_jwks, lines 35-50 *)

\* CacheIsEmpty with the guard dropped: every call fetches
CacheNeverTrusted(cache) == TRUE

\* CacheIsEmpty written as "if not _jwks_cache": an empty document is refetched
CacheIsFalsy(cache) == cache = NoneD \/ cache = EmptyDict

\* if _jwks_cache is None
CacheIsEmpty(cache) == cache = NoneD

\* PoolMissing with the check of line 41 dropped
PoolMissingNever(cognito_user_pool_id) == FALSE

\* if not cognito_user_pool_id
PoolMissing(cognito_user_pool_id) == ~TruthyStr(cognito_user_pool_id)

\* the f-string of line 44, as its pieces
JwksUrl(cognito_region, cognito_user_pool_id) ==
    <<"https://cognito-idp.", cognito_region, ".amazonaws.com/",
      cognito_user_pool_id, "/.well-known/jwks.json">>

-----------------------------------------------------------------------------
(* validate_jwt_token, lines 104-129: key lookup and verification *)

\* kid = unverified_header.get("kid")
Kid(unverified_header) == DictGet(unverified_header, "kid", NoneS)

\* Scan falling back to the first key when no kid matches
RECURSIVE ScanFallback(_, _, _)
ScanFallback(keys, i, kid) ==
    IF i > Len(keys) THEN (IF Len(keys) > 0 THEN keys[1] ELSE NoneD)
    ELSE IF "kid" \notin DOMAIN keys[i] THEN Raise("KeyError", "kid")
    ELSE IF keys[i].kid = kid THEN keys[i]
    ELSE ScanFallback(keys, i + 1, kid)

\* Scan without the break of line 113: the last entry whose "kid" equals kid
RECURSIVE ScanLastMatch(_, _, _)
ScanLastMatch(keys, i, kid) ==
    IF i > Len(keys) THEN NoneD
    ELSE IF "kid" \notin DOMAIN keys[i] THEN Raise("KeyError", "kid")
    ELSE LET rest == ScanLastMatch(keys, i + 1, kid)
         IN  IF rest # NoneD THEN rest
             ELSE IF keys[i].kid = kid THEN keys[i]
             ELSE NoneD

\* The for loop of lines 109-113 from index i on: the first entry whose "kid"
\* equals kid, NoneD when the list has none, KeyError at an entry without "kid".
RECURSIVE Scan(_, _, _)
Scan(keys, i, kid) ==
    IF i > Len(keys) THEN NoneD
    ELSE IF "kid" \notin DOMAIN keys[i] THEN Raise("KeyError", "kid")
    ELSE IF keys[i].kid = kid THEN keys[i]
    ELSE Scan(keys, i + 1, kid)

\* jwks["keys"] and the loop: a key, NoneD, or the exception raised
FindKey(jwks, kid) ==
    IF "keys" \notin DOMAIN jwks THEN Raise("KeyError", "keys")
    ELSE Scan(jwks.keys, 1, kid)

IsException(x) == "kind" \in DOMAIN x /\ x.kind = "raise"

\* Issuer naming the user pool the cached key set was fetched for
IssuerOfCachedPool(cognito_region, cognito_user_pool_id) ==
    <<"https://cognito-idp.", cognito_region, ".amazonaws.com/", cache_pool>>

\* the issuer f-string of line 125, as its pieces
Issuer(cognito_region, cognito_user_pool_id) ==
    <<"https://cognito-idp.", cognito_region, ".amazonaws.com/", cognito_user_pool_id>>

\* the arguments of jwt.decode, lines 120-126
DecodeArgs(token, key, l) ==
    [ token |-> token, key |-> key, algorithms |-> <<"RS256">>,
      audience |-> l.cognito_app_client_id,
      issuer |-> Issuer(l.cognito_region, l.cognito_user_pool_id) ]

\* ReturnClaims keeping only the subject claim
ReturnSubjectOnly(claims_result) == Return([sub |-> claims_result.sub])

\* return claims_result
ReturnClaims(claims_result) == Return(claims_result)

\* Lines 104-139 for a call whose get_jwks returned jwks, when
\* jwt.get_unverified_header yields uh and jwt.decode, if reached, yields d:
\* the outcome, the exception raised inside the try block (NoResult if none),
\* and the arguments and the result of jwt.decode (NoneD when it is not called).
VerifyStage(l, uh, d) ==
    IF IsException(uh)
    THEN [result |-> Handlers(uh), inner |-> uh, decode_args |-> NoneD, decoded |-> NoneD]
    ELSE LET key == FindKey(l.jwks, Kid(uh))
         IN  IF IsException(key)
             THEN [result |-> Handlers(key), inner |-> key,
                   decode_args |-> NoneD, decoded |-> NoneD]
             ELSE IF key = NoneD
             THEN [result |-> Handlers(UnauthorizedError("Invalid token")),
                   inner |-> UnauthorizedError("Invalid token"),
                   decode_args |-> NoneD, decoded |-> NoneD]
             ELSE IF IsException(d)
             THEN [result |-> Handlers(d), inner |-> d,
                   decode_args |-> DecodeArgs(l.token, key, l), decoded |-> NoneD]
             ELSE [result |-> ReturnClaims(d), inner |-> NoResult,
                   decode_args |-> DecodeArgs(l.token, key, l), decoded |-> d]

-----------------------------------------------------------------------------
(* State *)

NoCall == [fn |-> "", event |-> EmptyDict, region |-> NoneS,
           user_pool_id |-> NoneS, app_client_id |-> NoneS]

NoLocals == [cognito_region |-> "", cognito_user_pool_id |-> "",
             cognito_app_client_id |-> "", token |-> NoneSeq,
             g_region |-> NoneS, g_user_pool_id |-> NoneS, jwks_url |-> <<>>,
             body |-> NoneD, jwks |-> NoneD]

Unread == [unread |-> TRUE]

NoHist == [seen |-> Unread, fetched |-> FALSE, stored |-> FALSE, inner |-> NoResult,
           unverified_header |-> NoneD, decode_args |-> NoneD, decoded |-> NoneD]

\* the fixture has not run yet
NoHarness == [resets |-> 0, held |-> NoneD, fetches |-> 0]

\* no function of dynamodb.helpers has been called
NoHelper == [fn |-> "", arg |-> NoneD, origin |-> NoneD, out |-> NoResult]

Init ==
    /\ env \in Environments
    /\ jwks_cache = NoneD
    /\ pc = [p \in Procs |-> "idle"]
    /\ call = [p \in Procs |-> NoCall]
    /\ loc = [p \in Procs |-> NoLocals]
    /\ result = [p \in Procs |-> NoResult]
    /\ hist = [p \in Procs |-> NoHist]
    /\ fetches = 0
    /\ cache_pool = ""
    /\ helper = NoHelper
    /\ harness = NoHarness

\* no call is in progress and no outcome is waiting to be observed
Quiet == \A p \in Procs : pc[p] = "idle"

\* the call ends with outcome r
End(p, r) ==
    /\ pc' = [pc EXCEPT ![p] = "done"]
    /\ result' = [result EXCEPT ![p] = r]

-----------------------------------------------------------------------------
(* Actions *)

\* get_jwks(region, user_pool_id) is invoked
GetJwksCall(p, region, user_pool_id) ==
    /\ pc[p] = "idle"
    /\ call' = [call EXCEPT ![p] =
                  [NoCall EXCEPT !.fn = "get_jwks", !.region = region,
                                 !.user_pool_id = user_pool_id]]
    /\ loc' = [loc EXCEPT ![p] =
                  [NoLocals EXCEPT !.g_region = region,
                                   !.g_user_pool_id = user_pool_id]]
    /\ pc' = [pc EXCEPT ![p] = "get_jwks_37"]
    /\ result' = [result EXCEPT ![p] = NoResult]
    /\ hist' = [hist EXCEPT ![p] = NoHist]
    /\ UNCHANGED <<harness, helper, env, jwks_cache, fetches, cache_pool>>

\* a caller invokes get_jwks
CallGetJwks(p) ==
    /\ pc[p] = "idle"
    /\ \E region \in RegionArgs, user_pool_id \in PoolArgs :
          GetJwksCall(p, region, user_pool_id)

\* validate_jwt_token(event, region, user_pool_id, app_client_id) is invoked:
\* lines 74-98 run, and line 102 calls
\* get_jwks(region=cognito_region, user_pool_id=cognito_user_pool_id)
ValidateCall(p, event, region, user_pool_id, app_client_id) ==
    /\ pc[p] = "idle"
    /\  LET c == [fn |-> "validate_jwt_token", event |-> event, region |-> region,
                  user_pool_id |-> user_pool_id, app_client_id |-> app_client_id]
            r == Preamble(c)
        IN  /\ call' = [call EXCEPT ![p] = c]
            /\ hist' = [hist EXCEPT ![p] = NoHist]
            /\ IF r # NoResult
               THEN /\ End(p, r)
                    /\ loc' = [loc EXCEPT ![p] = NoLocals]
               ELSE /\ pc' = [pc EXCEPT ![p] = "get_jwks_37"]
                    /\ result' = [result EXCEPT ![p] = NoResult]
                    /\ loc' = [loc EXCEPT ![p] =
                         [NoLocals EXCEPT
                            !.cognito_region = CognitoRegion(region),
                            !.cognito_user_pool_id = CognitoUserPoolId(user_pool_id),
                            !.cognito_app_client_id = CognitoAppClientId(app_client_id),
                            !.token = Token(event),
                            !.g_region = CognitoRegion(region),
                            !.g_user_pool_id = CognitoUserPoolId(user_pool_id)]]
    /\ UNCHANGED <<harness, helper, env, jwks_cache, fetches, cache_pool>>

\* a caller invokes validate_jwt_token
CallValidate(p) ==
    /\ pc[p] = "idle"
    /\ \E event \in Events, region \in RegionArgs, user_pool_id \in PoolArgs,
          app_client_id \in ClientArgs :
          ValidateCall(p, event, region, user_pool_id, app_client_id)

\* get_jwks, lines 37-44: read the cache; when it is empty resolve the
\* configuration and build the URL
JwksCheck(p) ==
    /\ pc[p] = "get_jwks_37"
    /\ IF CacheIsEmpty(jwks_cache)
       THEN LET cognito_region == CognitoRegion(loc[p].g_region)
                cognito_user_pool_id == CognitoUserPoolId(loc[p].g_user_pool_id)
            IN  IF PoolMissing(cognito_user_pool_id)
                THEN /\ End(p, Outcome(call[p].fn, ValueError(PoolRequired)))
                     /\ hist' = [hist EXCEPT ![p].seen = jwks_cache,
                                             ![p].inner = ValueError(PoolRequired)]
                     /\ loc' = loc
                ELSE /\ pc' = [pc EXCEPT ![p] = "get_jwks_46"]
                     /\ loc' = [loc EXCEPT ![p].jwks_url =
                                   JwksUrl(cognito_region, cognito_user_pool_id)]
                     /\ hist' = [hist EXCEPT ![p].seen = jwks_cache]
                     /\ result' = result
       ELSE /\ pc' = [pc EXCEPT ![p] = "get_jwks_50"]
            /\ hist' = [hist EXCEPT ![p].seen = jwks_cache]
            /\ UNCHANGED <<loc, result>>
    /\ UNCHANGED <<harness, helper, env, jwks_cache, call, fetches, cache_pool>>

\* FetchOutcome with a failure remembered: the cache is set to {} when the
\* fetch raises
FetchOutcomeCachesFailure(p, out) ==
    /\ pc[p] = "get_jwks_46"
    /\  IF IsException(out)
        THEN /\ End(p, Outcome(call[p].fn, out))
             /\ hist' = [hist EXCEPT ![p].fetched = TRUE, ![p].inner = out]
             /\ jwks_cache' = EmptyDict
             /\ UNCHANGED <<loc, fetches>>
        ELSE /\ fetches < MaxFetches
             /\ pc' = [pc EXCEPT ![p] = "get_jwks_48"]
             /\ loc' = [loc EXCEPT ![p].body = out]
             /\ hist' = [hist EXCEPT ![p].fetched = TRUE]
             /\ fetches' = fetches + 1
             /\ result' = result
             /\ jwks_cache' = jwks_cache
    /\ UNCHANGED <<harness, helper, env, call, cache_pool>>

\* get_jwks, lines 46-48 up to response.json(): the GET, raise_for_status and
\* the parse of the body, which raise or yield the document out
FetchOutcome(p, out) ==
    /\ pc[p] = "get_jwks_46"
    /\  IF IsException(out)
        THEN /\ End(p, Outcome(call[p].fn, out))
             /\ hist' = [hist EXCEPT ![p].fetched = TRUE, ![p].inner = out]
             /\ UNCHANGED <<loc, fetches>>
        ELSE /\ fetches < MaxFetches
             /\ pc' = [pc EXCEPT ![p] = "get_jwks_48"]
             /\ loc' = [loc EXCEPT ![p].body = out]
             /\ hist' = [hist EXCEPT ![p].fetched = TRUE]
             /\ fetches' = fetches + 1
             /\ result' = result
    /\ UNCHANGED <<harness, helper, env, jwks_cache, call, cache_pool>>

JwksFetch(p) ==
    /\ pc[p] = "get_jwks_46"
    /\ \E out \in FetchErrors \cup Bodies : FetchOutcome(p, out)

\* JwksStore without the assignment: the fetched document is not cached
JwksStoreSkipped(p) ==
    /\ pc[p] = "get_jwks_48"
    /\ pc' = [pc EXCEPT ![p] = "get_jwks_50"]
    /\ hist' = [hist EXCEPT ![p].stored = TRUE]
    /\ UNCHANGED <<harness, helper, env, jwks_cache, cache_pool, call, loc, result, fetches>>

\* get_jwks, line 48: the assignment to the global
JwksStore(p) ==
    /\ pc[p] = "get_jwks_48"
    /\ jwks_cache' = loc[p].body
    /\ cache_pool' = loc[p].jwks_url[4]
    /\ pc' = [pc EXCEPT ![p] = "get_jwks_50"]
    /\ hist' = [hist EXCEPT ![p].stored = TRUE]
    /\ UNCHANGED <<harness, helper, env, call, loc, result, fetches>>

\* get_jwks, line 50: return the global; in validate_jwt_token the value is
\* bound to jwks (line 102)
JwksReturn(p) ==
    /\ pc[p] = "get_jwks_50"
    /\ IF call[p].fn = "get_jwks"
       THEN /\ End(p, Return(jwks_cache))
            /\ loc' = loc
       ELSE /\ pc' = [pc EXCEPT ![p] = "validate_105"]
            /\ loc' = [loc EXCEPT ![p].jwks = jwks_cache]
            /\ result' = result
    /\ UNCHANGED <<harness, helper, env, jwks_cache, call, hist, fetches, cache_pool>>

\* validate_jwt_token, lines 104-139, when jwt.get_unverified_header yields
\* uh and jwt.decode, if reached, yields d
VerifyOutcome(p, uh, d) ==
    /\ pc[p] = "validate_105"
    /\  LET v == VerifyStage(loc[p], uh, d)
        IN  /\ End(p, v.result)
            /\ hist' = [hist EXCEPT ![p].inner = v.inner,
                                    ![p].unverified_header =
                                        IF IsException(uh) THEN NoneD ELSE uh,
                                    ![p].decode_args = v.decode_args,
                                    ![p].decoded = v.decoded]
    /\ UNCHANGED <<harness, helper, env, jwks_cache, call, loc, fetches, cache_pool>>

Verify(p) ==
    /\ pc[p] = "validate_105"
    /\ \E uh \in UnverifiedHeaders \cup HeaderErrors,
          d \in ClaimSets \cup VerifyErrors \cup EngineFaults :
          VerifyOutcome(p, uh, d)

\* the caller has observed the outcome
Finish(p) ==
    /\ pc[p] = "done"
    /\ pc' = [pc EXCEPT ![p] = "idle"]
    /\ call' = [call EXCEPT ![p] = NoCall]
    /\ loc' = [loc EXCEPT ![p] = NoLocals]
    /\ result' = [result EXCEPT ![p] = NoResult]
    /\ hist' = [hist EXCEPT ![p] = NoHist]
    /\ UNCHANGED <<harness, helper, env, jwks_cache, fetches, cache_pool>>

\* tests/conftest.py, reset_jwks_cache: the fixture runs between test cases
ResetCache ==
    /\ Quiet
    /\ jwks_cache # NoneD
    /\ jwks_cache' = NoneD
    /\ fetches' = 0
    /\ cache_pool' = ""
    /\ UNCHANGED <<harness, helper, env, pc, call, loc, result, hist>>

\* the thread of a run whose calls are made one after the other
MainProc == CHOOSE p \in Procs : \A q \in Procs : p <= q

\* calls made one after the other
Next ==
    \/ CallGetJwks(MainProc)
    \/ CallValidate(MainProc)
    \/ JwksCheck(MainProc)
    \/ JwksFetch(MainProc)
    \/ JwksStore(MainProc)
    \/ JwksReturn(MainProc)
    \/ Verify(MainProc)
    \/ Finish(MainProc)
    \/ ResetCache

Spec == Init /\ [][Next]_vars

-----------------------------------------------------------------------------
(* Calls made from several threads at once.  The module takes no lock, so the
   numbered steps of get_jwks interleave freely; each thread makes one call
   in a test case, and the fixture resets the cache when all have returned. *)

\* a deployment with all three variables set
ConcEnv == ("COGNITO_REGION" :> "eu-west-1") @@
           ("COGNITO_USER_POOL_ID" :> "pool-env") @@
           ("COGNITO_APP_CLIENT_ID" :> "client-env")

\* a request that carries a well-formed bearer token
ConcEvent == ("headers" :> ("Authorization" :> <<"Bearer", SP, "tok">>))

\* documents the endpoint serves: two different key sets and {}
ConcBodies == { [keys |-> <<[kid |-> "k1", n |-> "n1"]>>],
                [keys |-> <<[kid |-> "k2", n |-> "n1"]>>],
                EmptyDict }

ConcFetchErrors == { Raise("ConnectionError", "connection failed") }

\* the token names key k1; it verifies or its signature is rejected
ConcHeader == [alg |-> "RS256", kid |-> "k1"]
ConcDecoded == { [sub |-> "user-123", username |-> "alice"],
                 Raise("JWTError", "Signature verification failed.") }

ConcInit == Init /\ env = ConcEnv

ConcCallGetJwks(p) == GetJwksCall(p, NoneS, NoneS)

ConcCallValidate(p) == ValidateCall(p, ConcEvent, NoneS, NoneS, NoneS)

ConcJwksFetch(p) ==
    /\ pc[p] = "get_jwks_46"
    /\ \E out \in ConcFetchErrors \cup ConcBodies : FetchOutcome(p, out)

ConcVerify(p) ==
    /\ pc[p] = "validate_105"
    /\ \E d \in ConcDecoded : VerifyOutcome(p, ConcHeader, d)

\* every thread that made a call has returned
AllReturned ==
    /\ \A p \in Procs : pc[p] \in {"idle", "done"}
    /\ \E p \in Procs : pc[p] = "done"

\* the test case ends: the threads are joined and reset_jwks_cache runs
\* (tests/conftest.py)
EndTest ==
    /\ AllReturned
    /\ pc' = [p \in Procs |-> "idle"]
    /\ call' = [p \in Procs |-> NoCall]
    /\ loc' = [p \in Procs |-> NoLocals]
    /\ result' = [p \in Procs |-> NoResult]
    /\ hist' = [p \in Procs |-> NoHist]
    /\ jwks_cache' = NoneD
    /\ fetches' = 0
    /\ cache_pool' = ""
    /\ UNCHANGED <<harness, helper, env>>

ConcNext ==
    \/ \E p \in Procs : ConcCallGetJwks(p)
    \/ \E p \in Procs : ConcCallValidate(p)
    \/ \E p \in Procs : JwksCheck(p)
    \/ \E p \in Procs : ConcJwksFetch(p)
    \/ \E p \in Procs : JwksStore(p)
    \/ \E p \in Procs : JwksReturn(p)
    \/ \E p \in Procs : ConcVerify(p)
    \/ EndTest

ConcSpec == ConcInit /\ [][ConcNext]_vars

-----------------------------------------------------------------------------
(* A test session: calls made one after the other, with the fixture of
   tests/conftest.py run between them and its runs counted. *)

\* the session runs with everything configured or with nothing configured
ResetInit == Init /\ env \in {ConcEnv, EmptyDict}

\* get_jwks with or without an explicit user pool
ResetCallGetJwks ==
    /\ pc[MainProc] = "idle"
    /\ \E user_pool_id \in PoolArgs : GetJwksCall(MainProc, NoneS, user_pool_id)

\* reset_jwks_cache: cognito_module._jwks_cache = None; harness keeps the
\* number of runs, the key set the cache held and the fetches made so far
HarnessReset ==
    /\ Quiet
    /\ harness.resets < MaxResets
    /\ jwks_cache' = NoneD
    /\ fetches' = 0
    /\ cache_pool' = ""
    /\ harness' = [resets |-> harness.resets + 1, held |-> jwks_cache,
                   fetches |-> harness.fetches + fetches]
    /\ UNCHANGED <<helper, env, pc, call, loc, result, hist>>

ResetNext ==
    \/ ResetCallGetJwks
    \/ ConcCallValidate(MainProc)
    \/ JwksCheck(MainProc)
    \/ ConcJwksFetch(MainProc)
    \/ JwksStore(MainProc)
    \/ JwksReturn(MainProc)
    \/ ConcVerify(MainProc)
    \/ Finish(MainProc)
    \/ HarnessReset

ResetSpec == ResetInit /\ [][ResetNext]_vars

-----------------------------------------------------------------------------
(* A run of NProcs calls made one after the other, each in a slot of its
   own so that what the earlier calls did stays visible to the later ones. *)

\* it is the turn of slot p: the earlier calls have ended, the later ones
\* have not begun
Turn(p) ==
    /\ \A q \in Procs : q < p => pc[q] = "done"
    /\ \A q \in Procs : q > p => pc[q] = "idle"

\* get_jwks with or without an explicit user pool
SessionCallGetJwks(p) ==
    /\ pc[p] = "idle"
    /\ \E user_pool_id \in PoolArgs : GetJwksCall(p, NoneS, user_pool_id)

\* the fetch fails in each of the three ways or yields a document
SessionJwksFetch(p) ==
    /\ pc[p] = "get_jwks_46"
    /\ \E out \in FetchErrors \cup ConcBodies : FetchOutcome(p, out)

SessionNext ==
    \/ \E p \in Procs : Turn(p) /\ SessionCallGetJwks(p)
    \/ \E p \in Procs : Turn(p) /\ ConcCallValidate(p)
    \/ \E p \in Procs : Turn(p) /\ JwksCheck(p)
    \/ \E p \in Procs : Turn(p) /\ SessionJwksFetch(p)
    \/ \E p \in Procs : Turn(p) /\ JwksStore(p)
    \/ \E p \in Procs : Turn(p) /\ JwksReturn(p)
    \/ \E p \in Procs : Turn(p) /\ ConcVerify(p)
    \/ EndTest

SessionSpec == ResetInit /\ [][SessionNext]_vars

-----------------------------------------------------------------------------
(* dynamodb/helpers.py: Python text, bytes and values                       *)
(*                                                                          *)
(* Here a str is the sequence of its code points and a bytes object the     *)
(* sequence of its bytes. A Python value is a record whose one field tells  *)
(* its type: [s |-> text], [i |-> integer], [f |-> literal], [b |-> bool],  *)
(* [null |-> TRUE] for None, [l |-> elements] and, for a dict, [d |-> the   *)
(* sequence of its <<key, value>> pairs in insertion order].                *)

\* the printable ASCII characters of code points 32 to 95 and 97 to 126
AsciiLow ==
    <<" ", "!", "\"", "#", "$", "%", "&", "'", "(", ")", "*", "+", ",", "-", ".", "/",
      "0", "1", "2", "3", "4", "5", "6", "7", "8", "9", ":", ";", "<", "=", ">", "?",
      "@", "A", "B", "C", "D", "E", "F", "G", "H", "I", "J", "K", "L", "M", "N", "O",
      "P", "Q", "R", "S", "T", "U", "V", "W", "X", "Y", "Z", "[", "\\", "]", "^", "_">>
AsciiHigh ==
    <<"a", "b", "c", "d", "e", "f", "g", "h", "i", "j", "k", "l", "m", "n", "o",
      "p", "q", "r", "s", "t", "u", "v", "w", "x", "y", "z", "{", "|", "}", "~">>

\* ord(c) of one of these characters
Ord(c) ==
    IF \E i \in DOMAIN AsciiLow : AsciiLow[i] = c
    THEN 31 + (CHOOSE i \in DOMAIN AsciiLow : AsciiLow[i] = c)
    ELSE 96 + (CHOOSE i \in DOMAIN AsciiHigh : AsciiHigh[i] = c)

\* the str spelled by a sequence of printable ASCII characters
Str(chars) == [i \in DOMAIN chars |-> Ord(chars[i])]

PyStr(text) == [s |-> text]
PyInt(n) == [i |-> n]
PyFloat(literal) == [f |-> literal]
PyBool(b) == [b |-> b]
PyNone == [null |-> TRUE]
PyList(elements) == [l |-> elements]
PyDict(pairs) == [d |-> pairs]

\* the outcome of a step that either yields a value or raises
Ok(v) == [ok |-> TRUE, v |-> v, error |-> ""]
Err(type) == [ok |-> FALSE, v |-> <<>>, error |-> type]

\* a loop over seq[lo .. hi] from left to right: the state reached from state
\* s by the steps Step, none being taken once a state has stop set (the range
\* is halved so that the evaluation stays shallow)
RECURSIVE Loop(_, _, _, _, _)
Loop(Step(_, _), s, seq, lo, hi) ==
    IF lo > hi \/ s.stop THEN s
    ELSE IF lo = hi THEN Step(s, seq[lo])
    ELSE LET left == Loop(Step, s, seq, lo, (lo + hi) \div 2)
         IN  IF left.stop THEN left
             ELSE Loop(Step, left, seq, (lo + hi) \div 2 + 1, hi)

\* the concatenation of seqs[lo .. hi]
RECURSIVE ConcatRange(_, _, _)
ConcatRange(seqs, lo, hi) ==
    IF lo > hi THEN <<>>
    ELSE IF lo = hi THEN seqs[lo]
    ELSE ConcatRange(seqs, lo, (lo + hi) \div 2)
         \o ConcatRange(seqs, (lo + hi) \div 2 + 1, hi)

\* the concatenation of the sequences of a sequence
Concat(seqs) == ConcatRange(seqs, 1, Len(seqs))

\* the UTF-8 bytes of one code point
Utf8Char(c) ==
    IF c < 128 THEN <<c>>
    ELSE IF c < 2048 THEN <<192 + c \div 64, 128 + (c % 64)>>
    ELSE IF c < 65536
    THEN <<224 + c \div 4096, 128 + ((c \div 64) % 64), 128 + (c % 64)>>
    ELSE <<240 + c \div 262144, 128 + ((c \div 4096) % 64),
           128 + ((c \div 64) % 64), 128 + (c % 64)>>

\* text.encode("utf-8")
Utf8Encode(text) == Concat([i \in DOMAIN text |-> Utf8Char(text[i])])

\* the UTF-8 decoder before a byte: need continuation bytes are still to
\* come for the code point whose bits so far are cp, the next of them within
\* lo .. hi; stop is set at the first ill-formed sequence
Utf8Start == [need |-> 0, cp |-> 0, lo |-> 128, hi |-> 191, text |-> <<>>, stop |-> FALSE]

\* the decoder after byte c
Utf8Step(st, c) ==
    IF st.need = 0
    THEN IF c < 128 THEN [st EXCEPT !.text = Append(st.text, c)]
         ELSE IF c >= 194 /\ c <= 223 THEN [st EXCEPT !.need = 1, !.cp = c - 192]
         ELSE IF c >= 224 /\ c <= 239
         THEN [st EXCEPT !.need = 2, !.cp = c - 224,
                         !.lo = IF c = 224 THEN 160 ELSE 128,
                         !.hi = IF c = 237 THEN 159 ELSE 191]
         ELSE IF c >= 240 /\ c <= 244
         THEN [st EXCEPT !.need = 3, !.cp = c - 240,
                         !.lo = IF c = 240 THEN 144 ELSE 128,
                         !.hi = IF c = 244 THEN 143 ELSE 191]
         ELSE [st EXCEPT !.stop = TRUE]
    ELSE IF c < st.lo \/ c > st.hi THEN [st EXCEPT !.stop = TRUE]
    ELSE IF st.need = 1
    THEN [Utf8Start EXCEPT !.text = Append(st.text, st.cp * 64 + (c - 128))]
    ELSE [st EXCEPT !.need = st.need - 1, !.cp = st.cp * 64 + (c - 128),
                    !.lo = 128, !.hi = 191]

\* bytes.decode("utf-8"): the text, or UnicodeDecodeError when a sequence is
\* ill-formed or cut short
Utf8Decode(b) ==
    LET st == Loop(Utf8Step, Utf8Start, b, 1, Len(b))
    IN  IF st.stop \/ st.need # 0 THEN Err("UnicodeDecodeError") ELSE Ok(st.text)

-----------------------------------------------------------------------------
(* base64.b64encode and base64.b64decode                                    *)

B64Alphabet ==
    Str(<<"A", "B", "C", "D", "E", "F", "G", "H", "I", "J", "K", "L", "M", "N", "O", "P",
          "Q", "R", "S", "T", "U", "V", "W", "X", "Y", "Z", "a", "b", "c", "d", "e", "f",
          "g", "h", "i", "j", "k", "l", "m", "n", "o", "p", "q", "r", "s", "t", "u", "v",
          "w", "x", "y", "z", "0", "1", "2", "3", "4", "5", "6", "7", "8", "9", "+", "/">>)

B64Pad == Ord("=")

\* the character of a six-bit value
B64Char(sextet) == B64Alphabet[sextet + 1]

\* the four characters for the group of up to three bytes that starts at b[i]
B64Group(b, i) ==
    IF i = Len(b)
    THEN <<B64Char(b[i] \div 4), B64Char((b[i] % 4) * 16), B64Pad, B64Pad>>
    ELSE IF i + 1 = Len(b)
    THEN <<B64Char(b[i] \div 4), B64Char((b[i] % 4) * 16 + b[i + 1] \div 16),
           B64Char((b[i + 1] % 16) * 4), B64Pad>>
    ELSE <<B64Char(b[i] \div 4), B64Char((b[i] % 4) * 16 + b[i + 1] \div 16),
           B64Char((b[i + 1] % 16) * 4 + b[i + 2] \div 64), B64Char(b[i + 2] % 64)>>

\* base64.b64encode(b)
B64Encode(b) == Concat([g \in 1 .. (Len(b) + 2) \div 3 |-> B64Group(b, 3 * g - 2)])

\* the six-bit value of a byte of the alphabet, 64 for any other byte
B64Value(c) ==
    IF \E k \in DOMAIN B64Alphabet : B64Alphabet[k] = c
    THEN (CHOOSE k \in DOMAIN B64Alphabet : B64Alphabet[k] = c) - 1
    ELSE 64

\* binascii.a2b_base64 before a byte: quad_pos counts the characters of the
\* current quad, leftchar holds its bits not yet written, pads the pads seen
\* since the last character, bin_data the output; stop is the "goto done"
A2bStart == [quad_pos |-> 0, leftchar |-> 0, pads |-> 0, bin_data |-> <<>>, stop |-> FALSE]

\* the body of the loop of a2b_base64 as b64decode calls it (validate=False)
\* for byte c: a byte outside the alphabet is skipped, a pad that completes a
\* quad ends the decoding, whatever follows it
A2bStep(st, c) ==
    IF c = B64Pad
    THEN IF st.quad_pos >= 2 /\ st.quad_pos + st.pads + 1 >= 4
         THEN [st EXCEPT !.stop = TRUE]
         ELSE IF st.quad_pos >= 2 THEN [st EXCEPT !.pads = st.pads + 1]
         ELSE st
    ELSE LET this_ch == B64Value(c)
         IN  IF this_ch >= 64 THEN st
             ELSE IF st.quad_pos = 0
             THEN [st EXCEPT !.quad_pos = 1, !.leftchar = this_ch, !.pads = 0]
             ELSE IF st.quad_pos = 1
             THEN [st EXCEPT !.quad_pos = 2, !.leftchar = this_ch % 16, !.pads = 0,
                     !.bin_data = Append(st.bin_data, st.leftchar * 4 + this_ch \div 16)]
             ELSE IF st.quad_pos = 2
             THEN [st EXCEPT !.quad_pos = 3, !.leftchar = this_ch % 4, !.pads = 0,
                     !.bin_data = Append(st.bin_data, st.leftchar * 16 + this_ch \div 4)]
             ELSE [st EXCEPT !.quad_pos = 0, !.leftchar = 0, !.pads = 0,
                     !.bin_data = Append(st.bin_data, st.leftchar * 64 + this_ch)]

\* base64.b64decode(b): the bytes, or binascii.Error when the input ends
\* inside a quad
B64Decode(b) ==
    LET st == Loop(A2bStep, A2bStart, b, 1, Len(b))
    IN  IF st.stop \/ st.quad_pos = 0 THEN Ok(st.bin_data) ELSE Err("binascii.Error")

-----------------------------------------------------------------------------
(* json.dumps with its default arguments (ensure_ascii, ", " and ": ")      *)

Quote == Ord("\"")
Backslash == Ord("\\")

HexDigits ==
    Str(<<"0", "1", "2", "3", "4", "5", "6", "7", "8", "9", "a", "b", "c", "d", "e", "f">>)

\* '\\u{0:04x}'.format(n)
EscapeU(n) ==
    <<Backslash, Ord("u"), HexDigits[n \div 4096 + 1], HexDigits[((n \div 256) % 16) + 1],
      HexDigits[((n \div 16) % 16) + 1], HexDigits[(n % 16) + 1]>>

\* the control characters that have a two-character escape, and its letter
ShortEscapes == {<<8, "b">>, <<9, "t">>, <<10, "n">>, <<12, "f">>, <<13, "r">>}

\* EscapeChar that writes every character as it is
EscapeNothing(c) == <<c>>

\* how a character of a str is written between the quotes
EscapeChar(c) ==
    IF c = Quote \/ c = Backslash THEN <<Backslash, c>>
    ELSE IF \E e \in ShortEscapes : e[1] = c
    THEN <<Backslash, Ord((CHOOSE e \in ShortEscapes : e[1] = c)[2])>>
    ELSE IF c >= 32 /\ c <= 126 THEN <<c>>
    ELSE IF c < 65536 THEN EscapeU(c)
    ELSE EscapeU(55296 + (((c - 65536) \div 1024) % 1024))
         \o EscapeU(56320 + ((c - 65536) % 1024))

\* a str as a JSON string
DumpsStr(text) ==
    <<Quote>> \o Concat([i \in DOMAIN text |-> EscapeChar(text[i])]) \o <<Quote>>

\* the decimal digits of a natural number
RECURSIVE Digits(_)
Digits(n) ==
    IF n < 10 THEN <<Ord("0") + n>> ELSE Digits(n \div 10) \o <<Ord("0") + (n % 10)>>

\* an int as a JSON number
DumpsInt(n) == IF n < 0 THEN <<Ord("-")>> \o Digits(0 - n) ELSE Digits(n)

\* sep.join(items)
Join(items, sep) ==
    Concat([i \in 1 .. 2 * Len(items) - 1 |->
              IF i % 2 = 1 THEN items[(i + 1) \div 2] ELSE sep])

\* json.dumps(v) for a value made of str, int, bool, None, list and
\* str-keyed dict
RECURSIVE Dumps(_)
Dumps(v) ==
    IF "s" \in DOMAIN v THEN DumpsStr(v.s)
    ELSE IF "i" \in DOMAIN v THEN DumpsInt(v.i)
    ELSE IF "b" \in DOMAIN v
    THEN (IF v.b THEN Str(<<"t", "r", "u", "e">>) ELSE Str(<<"f", "a", "l", "s", "e">>))
    ELSE IF "null" \in DOMAIN v THEN Str(<<"n", "u", "l", "l">>)
    ELSE IF "l" \in DOMAIN v
    THEN Str(<<"[">>) \o Join([i \in DOMAIN v.l |-> Dumps(v.l[i])], Str(<<",", " ">>))
         \o Str(<<"]">>)
    ELSE Str(<<"{">>)
         \o Join([i \in DOMAIN v.d |->
                    DumpsStr(v.d[i][1]) \o Str(<<":", " ">>) \o Dumps(v.d[i][2])],
                 Str(<<",", " ">>))
         \o Str(<<"}">>)

-----------------------------------------------------------------------------
(* json.loads: the scanner of json.decoder / json.scanner                   *)

\* what a scanning step yields: a value and the index after it, or failure
Scanned(v, next) == [ok |-> TRUE, v |-> v, next |-> next]
ScanFail == [ok |-> FALSE, v |-> PyNone, next |-> 0]

At(t, i, chars) == i <= Len(t) /\ t[i] \in {Ord(c) : c \in chars}

StartsWith(t, i, word) ==
    /\ i + Len(word) - 1 <= Len(t)
    /\ \A k \in DOMAIN word : t[i + k - 1] = word[k]

IsDigit(c) == c >= Ord("0") /\ c <= Ord("9")

\* the value of a hexadecimal digit, 16 for any other character
HexValue(c) ==
    IF IsDigit(c) THEN c - Ord("0")
    ELSE IF c >= Ord("a") /\ c <= Ord("f") THEN c - Ord("a") + 10
    ELSE IF c >= Ord("A") /\ c <= Ord("F") THEN c - Ord("A") + 10
    ELSE 16

\* t[i .. i+3] are four hexadecimal digits
IsHex4(t, i) == i + 3 <= Len(t) /\ \A k \in 0 .. 3 : HexValue(t[i + k]) < 16

Hex4Value(t, i) ==
    HexValue(t[i]) * 4096 + HexValue(t[i + 1]) * 256 + HexValue(t[i + 2]) * 16
    + HexValue(t[i + 3])

\* the whitespace json skips: space, tab, line feed, carriage return
RECURSIVE SkipWs(_, _)
SkipWs(t, i) ==
    IF i <= Len(t) /\ t[i] \in {32, 9, 10, 13} THEN SkipWs(t, i + 1) ELSE i

\* the character an escape letter stands for, 0 when it is not an escape
Unescape(e) ==
    IF e \in {Quote, Backslash, Ord("/")} THEN e
    ELSE IF \E s \in ShortEscapes : Ord(s[2]) = e
    THEN (CHOOSE s \in ShortEscapes : Ord(s[2]) = e)[1]
    ELSE 0

\* scanstring from index i, just after the opening quote, acc being the
\* characters read so far (strict: no raw control character)
RECURSIVE ScanString(_, _, _)
ScanString(t, i, acc) ==
    IF i > Len(t) THEN ScanFail
    ELSE IF t[i] = Quote THEN Scanned(PyStr(acc), i + 1)
    ELSE IF t[i] < 32 THEN ScanFail
    ELSE IF t[i] # Backslash THEN ScanString(t, i + 1, Append(acc, t[i]))
    ELSE IF i + 1 > Len(t) THEN ScanFail
    ELSE IF t[i + 1] = Ord("u")
    THEN IF ~IsHex4(t, i + 2) THEN ScanFail
         ELSE LET u == Hex4Value(t, i + 2)
              IN  IF /\ u >= 55296 /\ u <= 56319
                     /\ StartsWith(t, i + 6, <<Backslash, Ord("u")>>)
                     /\ IsHex4(t, i + 8)
                     /\ Hex4Value(t, i + 8) >= 56320 /\ Hex4Value(t, i + 8) <= 57343
                  THEN ScanString(t, i + 12,
                           Append(acc, 65536 + (u - 55296) * 1024
                                       + (Hex4Value(t, i + 8) - 56320)))
                  ELSE ScanString(t, i + 6, Append(acc, u))
    ELSE IF Unescape(t[i + 1]) = 0 THEN ScanFail
    ELSE ScanString(t, i + 2, Append(acc, Unescape(t[i + 1])))

\* the first index from i on that does not hold a digit
RECURSIVE DigitsEnd(_, _)
DigitsEnd(t, i) == IF i <= Len(t) /\ IsDigit(t[i]) THEN DigitsEnd(t, i + 1) ELSE i

\* int() of the digits t[i .. j]
RECURSIVE DecValue(_, _, _)
DecValue(t, i, j) ==
    IF j < i THEN 0 ELSE DecValue(t, i, j - 1) * 10 + (t[j] - Ord("0"))

\* NUMBER_RE at index i: (-?(?:0|[1-9]\d*))(\.\d+)?([eE][-+]?\d+)?
ScanNumber(t, i) ==
    LET first == IF At(t, i, {"-"}) THEN i + 1 ELSE i
    IN  IF ~(first <= Len(t) /\ IsDigit(t[first])) THEN ScanFail
        ELSE LET int_end == IF t[first] = Ord("0") THEN first + 1 ELSE DigitsEnd(t, first)
                 frac_end == IF At(t, int_end, {"."}) /\ int_end + 1 <= Len(t)
                                /\ IsDigit(t[int_end + 1])
                             THEN DigitsEnd(t, int_end + 1) ELSE int_end
                 exp_digits == IF ~At(t, frac_end, {"e", "E"}) THEN 0
                               ELSE IF At(t, frac_end + 1, {"+", "-"}) THEN frac_end + 2
                               ELSE frac_end + 1
                 exp_end == IF exp_digits # 0 /\ exp_digits <= Len(t)
                               /\ IsDigit(t[exp_digits])
                            THEN DigitsEnd(t, exp_digits) ELSE frac_end
             IN  IF exp_end = int_end
                 THEN Scanned(PyInt((IF first = i THEN 1 ELSE -1)
                                    * DecValue(t, first, int_end - 1)), int_end)
                 ELSE Scanned(PyFloat(SubSeq(t, i, exp_end - 1)), exp_end)

\* dict(pairs) after one more pair: a repeated key keeps its place and takes
\* the later value
PutPair(pairs, kv) ==
    IF \E i \in DOMAIN pairs : pairs[i][1] = kv[1]
    THEN [i \in DOMAIN pairs |-> IF pairs[i][1] = kv[1] THEN kv ELSE pairs[i]]
    ELSE Append(pairs, kv)

\* scan_once at index i; ScanMembers and ScanElements read what follows the
\* opening bracket of a non-empty object or array, acc being what was read
RECURSIVE ScanOnce(_, _), ScanMembers(_, _, _), ScanElements(_, _, _)
RECURSIVE ScanMembersKey(_, _, _), ScanMembersValue(_, _, _, _)
RECURSIVE ScanElementsValue(_, _, _)
ScanOnce(t, i) ==
    IF i > Len(t) THEN ScanFail
    ELSE IF t[i] = Quote THEN ScanString(t, i + 1, <<>>)
    ELSE IF t[i] = Ord("{")
    THEN LET j == SkipWs(t, i + 1)
         IN  IF At(t, j, {"}"}) THEN Scanned(PyDict(<<>>), j + 1)
             ELSE ScanMembers(t, j, <<>>)
    ELSE IF t[i] = Ord("[")
    THEN LET j == SkipWs(t, i + 1)
         IN  IF At(t, j, {"]"}) THEN Scanned(PyList(<<>>), j + 1)
             ELSE ScanElements(t, j, <<>>)
    ELSE IF StartsWith(t, i, Str(<<"n", "u", "l", "l">>)) THEN Scanned(PyNone, i + 4)
    ELSE IF StartsWith(t, i, Str(<<"t", "r", "u", "e">>)) THEN Scanned(PyBool(TRUE), i + 4)
    ELSE IF StartsWith(t, i, Str(<<"f", "a", "l", "s", "e">>))
    THEN Scanned(PyBool(FALSE), i + 5)
    ELSE IF StartsWith(t, i, Str(<<"N", "a", "N">>))
    THEN Scanned(PyFloat(SubSeq(t, i, i + 2)), i + 3)
    ELSE IF StartsWith(t, i, Str(<<"I", "n", "f", "i", "n", "i", "t", "y">>))
    THEN Scanned(PyFloat(SubSeq(t, i, i + 7)), i + 8)
    ELSE IF StartsWith(t, i, Str(<<"-", "I", "n", "f", "i", "n", "i", "t", "y">>))
    THEN Scanned(PyFloat(SubSeq(t, i, i + 8)), i + 9)
    ELSE ScanNumber(t, i)

\* a member starts at index i: its key must be a string
ScanMembers(t, i, acc) ==
    IF ~At(t, i, {"\""}) THEN ScanFail
    ELSE ScanMembersKey(t, acc, ScanString(t, i + 1, <<>>))

\* the key has been scanned: a colon and the value follow
ScanMembersKey(t, acc, key) ==
    LET colon == SkipWs(t, key.next)
    IN  IF ~key.ok \/ ~At(t, colon, {":"}) THEN ScanFail
        ELSE ScanMembersValue(t, acc, key, ScanOnce(t, SkipWs(t, colon + 1)))

\* the value has been scanned: the object ends or another member follows
ScanMembersValue(t, acc, key, value) ==
    LET end == SkipWs(t, value.next)
    IN  IF ~value.ok THEN ScanFail
        ELSE IF At(t, end, {"}"})
        THEN Scanned(PyDict(PutPair(acc, <<key.v.s, value.v>>)), end + 1)
        ELSE IF At(t, end, {","})
        THEN ScanMembers(t, SkipWs(t, end + 1), PutPair(acc, <<key.v.s, value.v>>))
        ELSE ScanFail

\* an element starts at index i
ScanElements(t, i, acc) == ScanElementsValue(t, acc, ScanOnce(t, i))

\* the element has been scanned: the array ends or another element follows
ScanElementsValue(t, acc, value) ==
    LET end == SkipWs(t, value.next)
    IN  IF ~value.ok THEN ScanFail
        ELSE IF At(t, end, {"]"}) THEN Scanned(PyList(Append(acc, value.v)), end + 1)
        ELSE IF At(t, end, {","}) THEN ScanElements(t, SkipWs(t, end + 1), Append(acc, value.v))
        ELSE ScanFail

\* the end of json.loads: nothing but whitespace may follow the value r
LoadsEnd(text, r) ==
    IF r.ok /\ SkipWs(text, r.next) > Len(text) THEN Ok(r.v)
    ELSE Err("JSONDecodeError")

\* json.loads(text): one value between optional whitespace, else
\* JSONDecodeError
Loads(text) == LoadsEnd(text, ScanOnce(text, SkipWs(text, 1)))

-----------------------------------------------------------------------------
(* dynamodb/helpers.py, lines 25-70: the pagination token codec             *)

\* encode_pagination_token(last_key), lines 41-43
encode_pagination_token(last_key) ==
    LET json_str == Dumps(last_key)
        encoded == B64Encode(Utf8Encode(json_str))
    IN  Return(Utf8Decode(encoded).v)

\* except Exception as e: raise ValueError(f"Invalid pagination token: {e}")
InvalidToken(failed) == ValueError("Invalid pagination token: " \o failed.error)

\* line 68 once json.loads has returned or raised
ReturnLoaded(loaded) ==
    IF ~loaded.ok THEN InvalidToken(loaded) ELSE Return(loaded.v)

\* line 67 once decoded.decode("utf-8") has returned or raised
LoadText(text) ==
    IF ~text.ok THEN InvalidToken(text) ELSE ReturnLoaded(Loads(text.v))

\* line 67 once base64.b64decode has returned or raised
DecodeText(decoded) ==
    IF ~decoded.ok THEN InvalidToken(decoded) ELSE LoadText(Utf8Decode(decoded.v))

\* decode_pagination_token(token), lines 65-70: whatever the try block
\* raises becomes ValueError
decode_pagination_token(token) == DecodeText(B64Decode(Utf8Encode(token)))

-----------------------------------------------------------------------------
(* The inputs of the codec                                                  *)

MaxStrLen == 2       \* characters in a generated str value
MaxTokenLen == 5     \* characters in a generated token

\* a letter, the two characters JSON escapes with a backslash, a line feed
\* and a character outside ASCII
StrChars == {Ord("a"), Quote, Backslash, 10, 233}

\* the keys of a LastEvaluatedKey: a plain one and one that needs escaping
KeyNames == {Str(<<"i", "d">>), <<Quote, 233>>}

PlainValues ==
    {PyStr(Str(<<"7", "8", "9">>)), PyInt(1111111111), PyInt(0), PyInt(-12),
     PyNone, PyBool(TRUE), PyBool(FALSE)}

KeyValues ==
    {PyStr(s) : s \in SeqsUpTo(StrChars, MaxStrLen)}
    \cup PlainValues
    \cup {PyList(<<>>), PyList(<<PyInt(1), PyStr(Str(<<"a">>))>>),
          PyDict(<<>>), PyDict(<<<<Str(<<"k">>), PyList(<<PyNone>>)>>>>)}

\* the dicts handed to encode_pagination_token: str keys, JSON values
LastKeys ==
    {PyDict(<<>>)}
    \cup {PyDict(<<<<k, v>>>>) : k \in KeyNames, v \in KeyValues}
    \cup UNION {{PyDict(<<<<k, v>>, <<l, w>>>>) :
                    v \in KeyValues, l \in KeyNames \ {k}, w \in PlainValues} :
                 k \in KeyNames}

\* characters of generated tokens: three of the alphabet ("e30=" is the
\* token of the empty dict), the pad and one outside the alphabet
TokenChars == {Ord("e"), Ord("3"), Ord("0"), B64Pad, Ord("!")}

\* the tokens handed to decode_pagination_token: the generated ones, the one
\* of the test suite, tokens of JSON numbers, lists and null, the token of
\* the docstring and one that starts with a non-ASCII character
Tokens ==
    SeqsUpTo(TokenChars, MaxTokenLen)
    \cup {Str(<<"i", "n", "v", "a", "l", "i", "d", "-", "t", "o", "k", "e", "n", "-",
               "!", "!", "!", "!">>),
          Str(<<"M", "Q", "=", "=">>), Str(<<"W", "1", "0", "=">>),
          Str(<<"b", "n", "V", "s", "b", "A", "=", "=">>),
          Str(<<"e", "y", "J", "p", "Z", "C", "I", "6", "I", "C", "I", "x", "M", "j",
                "M", "i", "f", "Q", "=", "=">>),
          <<233>> \o Str(<<"e", "3", "0", "=">>)}

-----------------------------------------------------------------------------
(* The calls of the codec                                                   *)

\* the state of auth.cognito, which dynamodb.helpers does not touch
cognito_vars ==
    <<env, jwks_cache, pc, call, loc, result, hist, fetches, cache_pool, harness>>

\* a caller encodes a LastEvaluatedKey
Encode ==
    /\ helper.fn = ""
    /\ \E last_key \in LastKeys :
        helper' = [fn |-> "encode_pagination_token", arg |-> last_key,
                   origin |-> NoneD, out |-> encode_pagination_token(last_key)]
    /\ UNCHANGED cognito_vars

\* a caller decodes a token received from a client
Decode ==
    /\ helper.fn = ""
    /\ \E token \in Tokens :
        helper' = [fn |-> "decode_pagination_token", arg |-> token,
                   origin |-> NoneD, out |-> decode_pagination_token(token)]
    /\ UNCHANGED cognito_vars

\* a caller decodes the token the last call of encode_pagination_token
\* returned; origin remembers the dict that was encoded
DecodeEncoded ==
    /\ helper.fn = "encode_pagination_token"
    /\ helper' = [fn |-> "decode_pagination_token", arg |-> helper.out.value,
                  origin |-> helper.arg,
                  out |-> decode_pagination_token(helper.out.value)]
    /\ UNCHANGED cognito_vars

\* the process environment plays no part in dynamodb.helpers
HelpersInit == Init /\ env = EmptyDict

CodecNext == Encode \/ Decode \/ DecodeEncoded

CodecSpec == HelpersInit /\ [][CodecNext]_vars

-----------------------------------------------------------------------------
(* dynamodb/helpers.py, lines 73-129: the Pydantic model conversions        *)
(*                                                                          *)
(* A model class is the sequence of its fields; a field has a name, a type  *)
(* ("str" or "int"), may admit None (T | None) and either is required or    *)
(* has a default. A model instance is its class and the value of each       *)
(* field; an item is a function from keys to values.                        *)

Field(name, type, nullable, required, default) ==
    [name |-> name, type |-> type, nullable |-> nullable, required |-> required,
     default |-> default]

\* tests/test_dynamodb/test_helpers.py, SampleModel: id: str, name: str,
\* email: str | None = None, age: int | None = None
SampleModel ==
    <<Field("id", "str", FALSE, TRUE, PyNone), Field("name", "str", FALSE, TRUE, PyNone),
      Field("email", "str", TRUE, FALSE, PyNone), Field("age", "int", TRUE, FALSE, PyNone)>>

\* a caller's model with the other kinds of field: id: str,
\* status: str | None = "open", note: str | None, priority: int = 0
Ticket ==
    <<Field("id", "str", FALSE, TRUE, PyNone),
      Field("status", "str", TRUE, FALSE, PyStr(Str(<<"o", "p", "e", "n">>))),
      Field("note", "str", TRUE, TRUE, PyNone),
      Field("priority", "int", FALSE, FALSE, PyInt(0))>>

ModelClasses == [SampleModel |-> SampleModel, Ticket |-> Ticket]

FieldNames(model_class) ==
    {ModelClasses[model_class][i].name : i \in DOMAIN ModelClasses[model_class]}

\* value is of the field's type
IsInstance(value, type) ==
    \/ type = "str" /\ "s" \in DOMAIN value
    \/ type = "int" /\ "i" \in DOMAIN value

\* Excluded dropping every falsy value
ExcludedFalsy(value) == value \in {PyNone, PyStr(<<>>), PyInt(0)}

\* exclude_none=True: the values model_dump leaves out
Excluded(value) == value = PyNone

\* model.model_dump(exclude_none=True)
ModelDump(model) ==
    [n \in {m \in DOMAIN model.values : ~Excluded(model.values[m])} |-> model.values[n]]

\* pydantic_to_dynamodb(model), line 97
pydantic_to_dynamodb(model) == Return(ModelDump(model))

\* MissingField without defaults: every absent field is an error
MissingFieldIsError(field) == Err("ValidationError")

\* validation of a field the input has no key for
MissingField(field) ==
    IF field.required THEN Err("ValidationError") ELSE Ok(field.default)

\* validation of one field against the input (an int is not accepted for a
\* str field, nor a non-numeric str for an int field)
ValidateField(field, item) ==
    IF field.name \notin DOMAIN item THEN MissingField(field)
    ELSE IF item[field.name] = PyNone
    THEN (IF field.nullable THEN Ok(PyNone) ELSE Err("ValidationError"))
    ELSE IF IsInstance(item[field.name], field.type) THEN Ok(item[field.name])
    ELSE Err("ValidationError")

\* model_class.model_validate(item): keys that are not fields are ignored
ModelValidate(model_class, item) ==
    LET fields == ModelClasses[model_class]
        checked == [i \in DOMAIN fields |-> ValidateField(fields[i], item)]
    IN  IF \E i \in DOMAIN fields : ~checked[i].ok
        THEN Raise("ValidationError", "")
        ELSE Return([cls |-> model_class,
                     values |-> [n \in FieldNames(model_class) |->
                                   checked[CHOOSE i \in DOMAIN fields :
                                             fields[i].name = n].v]])

\* dynamodb_to_pydantic(item, model_class), line 129
dynamodb_to_pydantic(item, model_class) == ModelValidate(model_class, item)

-----------------------------------------------------------------------------
(* The inputs of the conversions                                            *)

StrValues == {PyStr(<<>>), PyStr(Str(<<"J", "o", "h", "n">>))}
IntValues == {PyInt(0), PyInt(30)}

\* the values an instance can hold in a field
FieldValues(field) ==
    (IF field.type = "str" THEN StrValues ELSE IntValues)
    \cup (IF field.nullable THEN {PyNone} ELSE {})

\* the instances of a model class
Instances(model_class) ==
    {[cls |-> model_class, values |-> v] :
        v \in {w \in [FieldNames(model_class) -> StrValues \cup IntValues \cup {PyNone}] :
                 \A i \in DOMAIN ModelClasses[model_class] :
                    w[ModelClasses[model_class][i].name]
                        \in FieldValues(ModelClasses[model_class][i])}}

Models == UNION {Instances(model_class) : model_class \in DOMAIN ModelClasses}

\* the items read from a table for a model class: any of its fields may be
\* absent, hold a str, an int or None; one item has a key that is no field
Items(model_class) ==
    UNION {[names -> {PyStr(Str(<<"J", "o", "h", "n">>)), PyInt(30), PyNone}] :
             names \in SUBSET FieldNames(model_class)}
    \cup {[n \in FieldNames(model_class) \cup {"ttl"} |->
             IF n = "ttl" THEN PyInt(30) ELSE PyStr(Str(<<"J", "o", "h", "n">>))]}

-----------------------------------------------------------------------------
(* The calls of the conversions                                             *)

\* a caller converts a model instance to an item
ToItem ==
    /\ helper.fn = ""
    /\ \E model \in Models :
        helper' = [fn |-> "pydantic_to_dynamodb", arg |-> model, origin |-> NoneD,
                   out |-> pydantic_to_dynamodb(model)]
    /\ UNCHANGED cognito_vars

\* a caller converts an item read from a table
FromItem ==
    /\ helper.fn = ""
    /\ \E model_class \in DOMAIN ModelClasses : \E item \in Items(model_class) :
        helper' = [fn |-> "dynamodb_to_pydantic",
                   arg |-> [item |-> item, model_class |-> model_class],
                   origin |-> NoneD,
                   out |-> dynamodb_to_pydantic(item, model_class)]
    /\ UNCHANGED cognito_vars

\* a caller converts back the item the last call of pydantic_to_dynamodb
\* returned, with the class of the instance; origin remembers the instance
FromConverted ==
    /\ helper.fn = "pydantic_to_dynamodb"
    /\ helper' = [fn |-> "dynamodb_to_pydantic",
                  arg |-> [item |-> helper.out.value, model_class |-> helper.arg.cls],
                  origin |-> helper.arg,
                  out |-> dynamodb_to_pydantic(helper.out.value, helper.arg.cls)]
    /\ UNCHANGED cognito_vars

ModelNext == ToItem \/ FromItem \/ FromConverted

ModelSpec == HelpersInit /\ [][ModelNext]_vars

-----------------------------------------------------------------------------
(* Vocabulary of the properties *)

\* call p has ended and its outcome has not been consumed yet
Ended(p, fn) == pc[p] = "done" /\ call[p].fn = fn

\* call p read a populated cache at line 37
SawPopulated(p) == hist[p].seen # Unread /\ hist[p].seen # NoneD

-----------------------------------------------------------------------------
(* C1: in a run of calls made one after the other, at most one fetch        *)
(* succeeds between two resets of the cache, and a network fetch is only    *)
(* ever started or made while the cache is empty: once a fetch has          *)
(* populated the cache no later call fetches.                               *)
C1_FetchAtMostOnce ==
    /\ fetches <= 1
    /\ \A p \in Procs :
        /\ pc[p] = "get_jwks_46" => jwks_cache = NoneD
        /\ hist[p].fetched => hist[p].seen = NoneD
        /\ SawPopulated(p) => ~hist[p].fetched

\* a validate_jwt_token call returned claims from a cache an earlier call's
\* fetch populated
C1_Witness ==
    /\ fetches = 1
    /\ jwks_cache # NoneD
    /\ Ended(MainProc, "validate_jwt_token")
    /\ SawPopulated(MainProc)
    /\ result[MainProc].kind = "return"

(* C2: a get_jwks call that finds the cache populated returns the cached    *)
(* key set, which is still the cache's content, and makes no network        *)
(* request, whatever its region and user_pool_id arguments are.             *)
C2_CachedValueReturned ==
    \A p \in Procs :
        Ended(p, "get_jwks") /\ SawPopulated(p) =>
            /\ result[p] = Return(hist[p].seen)
            /\ result[p].value = jwks_cache
            /\ ~hist[p].fetched

\* a get_jwks call for another region and another pool than the cached one
\* was served from the cache
C2_Witness ==
    /\ Ended(MainProc, "get_jwks")
    /\ SawPopulated(MainProc)
    /\ call[MainProc].region = "us-east-1"
    /\ CognitoUserPoolId(call[MainProc].user_pool_id) # cache_pool
    /\ result[MainProc].kind = "return"

(* C3, as stated: a key-set fetch that fails during validate_jwt_token      *)
(* reaches the caller as the fetch failure itself.                          *)
C3_FetchErrorPropagates ==
    \A p \in Procs :
        Ended(p, "validate_jwt_token") /\ hist[p].inner \in FetchErrors =>
            result[p] = hist[p].inner

(* C3, amended: a key-set fetch that fails during validate_jwt_token is     *)
(* caught by the catch-all handler and reaches the caller as                *)
(* UnauthorizedError("Token validation failed"); the call made one request, *)
(* made no second one and left the cache empty. A direct get_jwks call      *)
(* does get the fetch failure itself.                                       *)
C3_FetchErrorReclassified ==
    \A p \in Procs :
        /\ Ended(p, "validate_jwt_token") /\ hist[p].inner \in FetchErrors =>
            /\ result[p] = UnauthorizedError("Token validation failed")
            /\ hist[p].fetched
            /\ jwks_cache = NoneD
        /\ Ended(p, "get_jwks") /\ hist[p].inner \in FetchErrors =>
            result[p] = hist[p].inner

\* a validate_jwt_token call ended on an HTTP error of the key-set fetch
C3_Witness ==
    /\ Ended(MainProc, "validate_jwt_token")
    /\ hist[MainProc].inner = Raise("HTTPError", "404 Client Error")
    /\ hist[MainProc].fetched

(* C4: whenever the engine rejects the token (jwt.decode or                 *)
(* jwt.get_unverified_header raises a JWTError: bad signature, expired,     *)
(* wrong audience, wrong issuer, undecodable token) the caller gets         *)
(* UnauthorizedError("Invalid or expired token"), the same for every        *)
(* cause.                                                                   *)
C4_GenericVerificationError ==
    \A p \in Procs :
        Ended(p, "validate_jwt_token")
        /\ hist[p].inner \in VerifyErrors \cup HeaderErrors =>
            result[p] = UnauthorizedError("Invalid or expired token")

\* jwt.decode was called and reported an expired token
C4_Witness ==
    /\ Ended(MainProc, "validate_jwt_token")
    /\ hist[MainProc].decode_args # NoneD
    /\ hist[MainProc].inner = Raise("ExpiredSignatureError", "Signature has expired.")

-----------------------------------------------------------------------------
(* The request and the key set as the properties describe them, stated      *)
(* without the operators that model the code                                *)

\* a header name in lower case
LowerName(n) == IF n \in {"Authorization", "AUTHORIZATION"} THEN "authorization" ELSE n

\* the header mapping of the request (empty when the request has none)
RequestHeaders(event) == IF "headers" \in DOMAIN event THEN event["headers"] ELSE EmptyDict

\* the names under which the request carries an authorization header
AuthNames(event) ==
    {n \in DOMAIN RequestHeaders(event) : LowerName(n) = "authorization"}

\* the positions of value v at which a word starts
WordStarts(v) == {i \in DOMAIN v : ~IsSpace(v[i]) /\ (i = 1 \/ IsSpace(v[i - 1]))}

\* v is made of exactly two whitespace-separated words, the first of which
\* is "bearer" in some letter case
WellFormedBearer(v) ==
    /\ Cardinality(WordStarts(v)) = 2
    /\ LET first == CHOOSE i \in WordStarts(v) : \A j \in WordStarts(v) : i <= j
       IN  /\ LowerAtom(v[first]) = "bearer"
           /\ first + 1 \in DOMAIN v
           /\ IsSpace(v[first + 1])

\* the explicit argument or the environment gives a non-empty value
Configured(arg, variable) ==
    \/ arg \notin {NoneS, ""}
    \/ variable \in DOMAIN env /\ env[variable] # ""

\* j has a key list all of whose entries carry a kid
IsKeySet(j) == "keys" \in DOMAIN j /\ \A i \in DOMAIN j.keys : "kid" \in DOMAIN j.keys[i]

\* key set j has an entry for kid
HasKid(j, kid) == \E i \in DOMAIN j.keys : j.keys[i].kid = kid

-----------------------------------------------------------------------------
(* C5: when the key set obtained has no entry whose kid is the kid of the   *)
(* token's unverified header, validate_jwt_token raises                     *)
(* UnauthorizedError("Invalid token"), the handlers pass it on unchanged,   *)
(* and jwt.decode is not called.                                            *)
C5_UnknownKidRejected ==
    \A p \in Procs :
        Ended(p, "validate_jwt_token")
        /\ hist[p].unverified_header # NoneD
        /\ IsKeySet(loc[p].jwks)
        /\ ~HasKid(loc[p].jwks, DictGet(hist[p].unverified_header, "kid", NoneS)) =>
            /\ result[p] = UnauthorizedError("Invalid token")
            /\ hist[p].inner = result[p]
            /\ hist[p].decode_args = NoneD
            /\ hist[p].decoded = NoneD

\* the token names kid k3 and the key set holds keys k2 and k1
C5_Witness ==
    /\ Ended(MainProc, "validate_jwt_token")
    /\ hist[MainProc].unverified_header = [alg |-> "RS256", kid |-> "k3"]
    /\ loc[MainProc].jwks = [keys |-> <<[kid |-> "k2", n |-> "n1"], [kid |-> "k1", n |-> "n1"]>>]
    /\ result[MainProc].kind = "raise"

(* C6: a call with a well-formed bearer header and configuration present,   *)
(* whose key set holds the token's kid and whose token jwt.decode accepts,  *)
(* returns exactly the claims jwt.decode returned.                          *)
C6_ClaimsReturnedUnchanged ==
    \A p \in Procs :
        Ended(p, "validate_jwt_token") /\ hist[p].decoded # NoneD =>
            /\ result[p].kind = "return"
            /\ result[p].value = hist[p].decoded

\* jwt.decode accepted a token with two claims and the call has ended
C6_Witness ==
    /\ Ended(MainProc, "validate_jwt_token")
    /\ AuthNames(call[MainProc].event) = {"authorization"}
    /\ hist[MainProc].decoded = [sub |-> "user-123", username |-> "alice"]

(* C7: validate_jwt_token returns only when, in the same call, the header   *)
(* was present and well formed, user_pool_id and app_client_id resolved     *)
(* non-empty, get_jwks returned a key set, a key with the token's kid was   *)
(* found in it and passed to jwt.decode, and jwt.decode succeeded; then it  *)
(* returns the decoded claims. Every other call raises and carries no       *)
(* claims.                                                                  *)
C7_AllOrNothing ==
    \A p \in Procs :
        Ended(p, "validate_jwt_token") =>
            IF result[p].kind = "return"
            THEN /\ \E n \in AuthNames(call[p].event) :
                        WellFormedBearer(call[p].event["headers"][n])
                 /\ Configured(call[p].user_pool_id, "COGNITO_USER_POOL_ID")
                 /\ Configured(call[p].app_client_id, "COGNITO_APP_CLIENT_ID")
                 /\ hist[p].seen # Unread
                 /\ loc[p].jwks # NoneD
                 /\ hist[p].unverified_header # NoneD
                 /\ hist[p].decode_args # NoneD
                 /\ \E i \in DOMAIN loc[p].jwks.keys :
                        loc[p].jwks.keys[i] = hist[p].decode_args.key
                 /\ hist[p].decode_args.key.kid =
                        DictGet(hist[p].unverified_header, "kid", NoneS)
                 /\ hist[p].decoded \in ClaimSets
                 /\ result[p].value = hist[p].decoded
            ELSE /\ result[p].kind = "raise"
                 /\ result[p].value = NoneD
                 /\ hist[p].decoded = NoneD

\* one call returned claims, having fetched the key set itself
C7_Witness ==
    /\ Ended(MainProc, "validate_jwt_token")
    /\ result[MainProc].kind = "return"
    /\ hist[MainProc].fetched

(* C8: a request without a header mapping, or whose header mapping has no   *)
(* authorization header under any spelling, is refused with                 *)
(* UnauthorizedError("Missing Authorization header"), whatever the          *)
(* configuration is.                                                        *)
C8_MissingHeaderRejected ==
    \A p \in Procs :
        Ended(p, "validate_jwt_token") /\ AuthNames(call[p].event) = {} =>
            result[p] = UnauthorizedError("Missing Authorization header")

\* a request without any "headers" member was refused while neither the
\* arguments nor the environment configured a user pool
C8_Witness ==
    /\ Ended(MainProc, "validate_jwt_token")
    /\ call[MainProc].event = EmptyDict
    /\ ~Configured(call[MainProc].user_pool_id, "COGNITO_USER_POOL_ID")
    /\ result[MainProc].kind = "raise"

(* C9: a request that carries a non-empty authorization header under a name *)
(* that differs from "authorization" only in letter case is not refused as  *)
(* missing its authorization header.                                        *)
C9_HeaderNameCaseInsensitive ==
    \A p \in Procs :
        Ended(p, "validate_jwt_token")
        /\ (\E n \in AuthNames(call[p].event) : call[p].event["headers"][n] # <<>>) =>
            result[p] # UnauthorizedError("Missing Authorization header")

(* C10: when the value of the authorization header is not made of exactly   *)
(* two whitespace-separated words of which the first is "bearer" in some    *)
(* letter case, validate_jwt_token raises UnauthorizedError.                *)
C10_MalformedHeaderRejected ==
    \A p \in Procs :
        Ended(p, "validate_jwt_token")
        /\ AuthNames(call[p].event) # {}
        /\ (\A n \in AuthNames(call[p].event) :
                ~WellFormedBearer(call[p].event["headers"][n])) =>
            /\ result[p].kind = "raise"
            /\ result[p].type = "UnauthorizedError"

\* a header whose scheme is followed by two words was refused as malformed
\* although the configuration was missing too
C10_Witness ==
    /\ Ended(MainProc, "validate_jwt_token")
    /\ call[MainProc].event =
           ("headers" :> ("Authorization" :> <<"Bearer", SP, "tok", SP, "tok">>))
    /\ ~Configured(call[MainProc].app_client_id, "COGNITO_APP_CLIENT_ID")
    /\ result[MainProc] = UnauthorizedError("Invalid Authorization header format")

(* C11: a call whose authorization header is a well-formed bearer header    *)
(* and whose user_pool_id or app_client_id resolves to empty (argument,     *)
(* else environment) raises ValueError with the message that names the      *)
(* missing field; user_pool_id is the one named when both are missing.      *)
C11_ConfigErrorNamesField ==
    \A p \in Procs :
        Ended(p, "validate_jwt_token")
        /\ AuthNames(call[p].event) # {}
        /\ (\A n \in AuthNames(call[p].event) :
                WellFormedBearer(call[p].event["headers"][n])) =>
            /\ ~Configured(call[p].user_pool_id, "COGNITO_USER_POOL_ID") =>
                    result[p] = ValueError(PoolRequired)
            /\ Configured(call[p].user_pool_id, "COGNITO_USER_POOL_ID")
               /\ ~Configured(call[p].app_client_id, "COGNITO_APP_CLIENT_ID") =>
                    result[p] = ValueError(ClientRequired)

(* C12: a get_jwks call whose user_pool_id is empty (no argument and no     *)
(* environment default) raises ValueError, performs no network fetch and    *)
(* leaves the cache unchanged.                                              *)
C12_EmptyPoolRejected ==
    \A p \in Procs :
        Ended(p, "get_jwks")
        /\ ~Configured(call[p].user_pool_id, "COGNITO_USER_POOL_ID") =>
            /\ result[p] = ValueError(PoolRequired)
            /\ ~hist[p].fetched
            /\ ~hist[p].stored
            /\ jwks_cache = hist[p].seen

(* C12, amended: such a call performs no network fetch and leaves the cache *)
(* unchanged; it raises ValueError naming user_pool_id when it finds the    *)
(* cache empty, and returns the cached document, without looking at its     *)
(* arguments, when it finds the cache populated.                            *)
C12_EmptyPoolRejectedOnEmptyCache ==
    \A p \in Procs :
        Ended(p, "get_jwks")
        /\ ~Configured(call[p].user_pool_id, "COGNITO_USER_POOL_ID") =>
            /\ ~hist[p].fetched
            /\ ~hist[p].stored
            /\ jwks_cache = hist[p].seen
            /\ IF hist[p].seen = NoneD
               THEN result[p] = ValueError(PoolRequired)
               ELSE result[p] = Return(hist[p].seen)

\* get_jwks was called without a user pool, the environment names a region
\* only, the cache was empty and the call raised
C12_Witness ==
    /\ Ended(MainProc, "get_jwks")
    /\ call[MainProc].user_pool_id = NoneS
    /\ "COGNITO_USER_POOL_ID" \notin DOMAIN env
    /\ hist[MainProc].seen = NoneD
    /\ jwks_cache = NoneD
    /\ result[MainProc].type = "ValueError"

-----------------------------------------------------------------------------
(* Python values as the properties compare them                             *)

\* a == b for Python values: dicts are equal when they map the same keys to
\* equal values, whatever the order of insertion
RECURSIVE PyEq(_, _)
PyEq(a, b) ==
    IF "d" \in DOMAIN a
    THEN /\ "d" \in DOMAIN b
         /\ {a.d[i][1] : i \in DOMAIN a.d} = {b.d[j][1] : j \in DOMAIN b.d}
         /\ \A i \in DOMAIN a.d : \A j \in DOMAIN b.d :
                a.d[i][1] = b.d[j][1] => PyEq(a.d[i][2], b.d[j][2])
    ELSE IF "l" \in DOMAIN a
    THEN /\ "l" \in DOMAIN b
         /\ Len(a.l) = Len(b.l)
         /\ \A i \in DOMAIN a.l : PyEq(a.l[i], b.l[i])
    ELSE a = b

\* the number of pad characters at the end of a token
TrailingPads(token) ==
    Cardinality({i \in DOMAIN token : \A j \in i .. Len(token) : token[j] = Ord("=")})

\* token is base64 text as RFC 4648 defines it: quads of characters of the
\* alphabet, the last quad padded with at most two pad characters
IsBase64(token) ==
    /\ Len(token) % 4 = 0
    /\ TrailingPads(token) <= 2
    /\ \A i \in 1 .. Len(token) - TrailingPads(token) :
            \E k \in DOMAIN B64Alphabet : B64Alphabet[k] = token[i]

\* the bytes a base64 token stands for are UTF-8 text that is a JSON document
DecodesToJson(token) ==
    LET text == Utf8Decode(B64Decode(Utf8Encode(token)).v)
    IN  text.ok /\ Loads(text.v).ok

(* C13: for every dict with str keys and JSON values (str, int, bool, None, *)
(* lists and dicts of these), the empty dict included, decoding the token   *)
(* that encode_pagination_token made of it returns a dict equal to it.      *)
C13_CodecRoundTrip ==
    helper.fn = "decode_pagination_token" /\ helper.origin # NoneD =>
        /\ helper.out.kind = "return"
        /\ PyEq(helper.out.value, helper.origin)

\* a dict whose key and value hold a quote, a backslash and a non-ASCII
\* character went through both functions
C13_Witness ==
    /\ helper.fn = "decode_pagination_token"
    /\ helper.origin = PyDict(<< <<(<<Quote, 233>>), PyStr(<<Backslash, Quote>>)>>,
                                <<Str(<<"i", "d">>), PyInt(-12)>> >>)
    /\ helper.out.kind = "return"

(* C14: for every token that is not valid base64, or whose decoded bytes    *)
(* are not valid JSON, decode_pagination_token raises ValueError and        *)
(* returns nothing.                                                         *)
C14_InvalidTokenRejected ==
    helper.fn = "decode_pagination_token"
    /\ (~IsBase64(helper.arg) \/ ~DecodesToJson(helper.arg)) =>
        /\ helper.out.kind = "raise"
        /\ helper.out.type = "ValueError"
        /\ helper.out.value = NoneD

\* the fields of the class of a model instance
FieldsOf(model) == {ModelClasses[model.cls][i] : i \in DOMAIN ModelClasses[model.cls]}

(* C15: for every model instance whose optional fields are each populated   *)
(* or None, converting it with pydantic_to_dynamodb and converting the item *)
(* back with dynamodb_to_pydantic and the instance's class returns an       *)
(* instance equal to it.                                                    *)
C15_ModelRoundTrip ==
    helper.fn = "dynamodb_to_pydantic" /\ helper.origin # NoneD =>
        /\ helper.out.kind = "return"
        /\ helper.out.value = helper.origin

(* C15, amended: the round trip returns an equal instance when every field  *)
(* of the instance that holds None is declared with None as its default.    *)
C15_ModelRoundTripNoneDefaults ==
    helper.fn = "dynamodb_to_pydantic" /\ helper.origin # NoneD
    /\ (\A f \in FieldsOf(helper.origin) :
            helper.origin.values[f.name] = PyNone => ~f.required /\ f.default = PyNone) =>
        /\ helper.out.kind = "return"
        /\ helper.out.value = helper.origin

\* a SampleModel whose email and age are None came back from its item
C15_Witness ==
    /\ helper.fn = "dynamodb_to_pydantic"
    /\ helper.origin # NoneD
    /\ helper.origin.cls = "SampleModel"
    /\ helper.origin.values["email"] = PyNone
    /\ helper.origin.values["age"] = PyNone
    /\ DOMAIN helper.arg.item = {"id", "name"}
    /\ helper.out.kind = "return"

(* C16: for every model instance, pydantic_to_dynamodb returns an item      *)
(* whose keys are exactly the fields of the instance that hold a value      *)
(* other than None, each with the value the instance holds.                 *)
C16_DropsExactlyNone ==
    helper.fn = "pydantic_to_dynamodb" =>
        /\ helper.out.kind = "return"
        /\ DOMAIN helper.out.value =
               {n \in DOMAIN helper.arg.values : helper.arg.values[n] # PyNone}
        /\ \A n \in DOMAIN helper.out.value : helper.out.value[n] = helper.arg.values[n]

\* an instance holding an empty str, the int 0 and a None was converted
C16_Witness ==
    /\ helper.fn = "pydantic_to_dynamodb"
    /\ helper.arg.cls = "Ticket"
    /\ helper.arg.values["id"] = PyStr(<<>>)
    /\ helper.arg.values["priority"] = PyInt(0)
    /\ helper.arg.values["status"] = PyNone
    /\ DOMAIN helper.out.value = {"id", "note", "priority"}

-----------------------------------------------------------------------------
(* Calls from several threads *)

\* the call in slot p read the cache at line 37 and found None
SawEmpty(p) == hist[p].seen = NoneD

\* C17 (as stated): once the cache holds a value no call writes it: a call
\* that is about to execute the assignment of line 48 finds the cache still
\* empty.
C17_NoWriteOncePopulated ==
    \A p \in Procs : pc[p] = "get_jwks_48" => jwks_cache = NoneD

\* C17 (amended): a call that read the cache as populated never fetches and
\* never writes it, and the cache keeps a value for as long as that call
\* lives; the only calls that fetch or write are those that read the cache
\* as empty, and these may still write after another call has populated it.
C17_ReadersNeverWrite ==
    /\ \A p \in Procs :
          SawPopulated(p) =>
             /\ pc[p] \notin {"get_jwks_46", "get_jwks_48"}
             /\ ~hist[p].fetched
             /\ ~hist[p].stored
             /\ loc[p].body = NoneD
             /\ jwks_cache # NoneD
    /\ \A p \in Procs :
          (pc[p] \in {"get_jwks_46", "get_jwks_48"} \/ hist[p].fetched \/ hist[p].stored)
             => SawEmpty(p)
    /\ \A p \in Procs : hist[p].stored => jwks_cache # NoneD

\* two calls read the cache as empty; one has populated it and returned, and
\* the other is about to overwrite it with a different document
C17_Witness ==
    \E p, q \in Procs :
        /\ p # q
        /\ SawEmpty(p) /\ hist[p].stored /\ pc[p] = "done"
        /\ SawEmpty(q) /\ pc[q] = "get_jwks_48"
        /\ jwks_cache = loc[p].body
        /\ loc[q].body # loc[p].body

\* every document fetched by the calls of this test case is b
AllFetched(b) == \A p \in Procs : loc[p].body \in {NoneD, b}

\* C18: concurrent first calls.  Only a call that read the cache as empty
\* fetches, so the successful fetches are at most as many as those calls;
\* and when every fetch returned the same key set b, the cache never holds
\* anything else, every get_jwks call that returns returns b, every
\* validate_jwt_token call is handed b, and once all calls have returned and
\* one of them wrote, the cache holds b.
C18_BenignRace ==
    /\ \A p \in Procs : hist[p].fetched => SawEmpty(p)
    /\ fetches <= Cardinality({p \in Procs : SawEmpty(p)})
    /\ \A b \in ConcBodies :
          AllFetched(b) =>
             /\ jwks_cache \in {NoneD, b}
             /\ \A p \in Procs :
                   /\ (Ended(p, "get_jwks") /\ ~IsException(result[p]))
                         => result[p] = Return(b)
                   /\ loc[p].jwks \in {NoneD, b}
             /\ (AllReturned /\ \E p \in Procs : hist[p].stored) => jwks_cache = b

\* every slot made a get_jwks call that read the cache as empty, fetched the
\* same key set, wrote it and returned it; the cache holds it
C18_Witness ==
    /\ \A p \in Procs :
          /\ Ended(p, "get_jwks")
          /\ SawEmpty(p) /\ hist[p].fetched /\ hist[p].stored
          /\ result[p] = Return(jwks_cache)
          /\ loc[p].body = jwks_cache
    /\ fetches = NProcs
    /\ jwks_cache \in KeySets

-----------------------------------------------------------------------------
(* Stages of validate_jwt_token *)

\* the request carries no authorization header, or only empty ones
HeaderAbsent(event) ==
    \A n \in AuthNames(event) : event["headers"][n] = <<>>

\* the request carries an authorization header and every non-empty one is a
\* well-formed bearer header
HeaderWellFormed(event) ==
    /\ ~HeaderAbsent(event)
    /\ \A n \in AuthNames(event) :
          event["headers"][n] # <<>> => WellFormedBearer(event["headers"][n])

\* the request carries an authorization header and no non-empty one is a
\* well-formed bearer header
HeaderIllFormed(event) ==
    /\ ~HeaderAbsent(event)
    /\ \A n \in AuthNames(event) :
          event["headers"][n] # <<>> => ~WellFormedBearer(event["headers"][n])

\* the call in slot p did not touch the key-set resolver: it did not read
\* the cache, fetch, write the cache or obtain a key set
NoResolverUse(p) ==
    /\ hist[p].seen = Unread
    /\ ~hist[p].fetched
    /\ ~hist[p].stored
    /\ loc[p].jwks = NoneD
    /\ hist[p].unverified_header = NoneD
    /\ hist[p].decode_args = NoneD

\* C19: the stages of validate_jwt_token fail in the order header presence,
\* header format, configuration, key-set resolution, kid match,
\* verification, and the first stage that fails decides the outcome: an
\* absent header gives the missing-header UnauthorizedError and an
\* ill-formed one the format UnauthorizedError whatever the configuration
\* is, a well-formed header with missing configuration gives the
\* configuration ValueError, these three never use the resolver, and a call
\* that passes them reads the cache, looks for the key only once it has a
\* key set and calls the verify step only once it has a key.
C19_FirstFailingStageDecides ==
    \A p \in Procs :
        Ended(p, "validate_jwt_token") =>
            LET event == call[p].event
                pool == Configured(call[p].user_pool_id, "COGNITO_USER_POOL_ID")
                client == Configured(call[p].app_client_id, "COGNITO_APP_CLIENT_ID")
            IN  /\ HeaderAbsent(event) =>
                     /\ result[p] = UnauthorizedError("Missing Authorization header")
                     /\ NoResolverUse(p)
                /\ HeaderIllFormed(event) =>
                     /\ result[p] = UnauthorizedError("Invalid Authorization header format")
                     /\ NoResolverUse(p)
                /\ HeaderWellFormed(event) /\ ~pool =>
                     /\ result[p] = ValueError(PoolRequired)
                     /\ NoResolverUse(p)
                /\ HeaderWellFormed(event) /\ pool /\ ~client =>
                     /\ result[p] = ValueError(ClientRequired)
                     /\ NoResolverUse(p)
                /\ HeaderWellFormed(event) /\ pool /\ client =>
                     /\ hist[p].seen # Unread
                     /\ hist[p].unverified_header # NoneD => loc[p].jwks # NoneD
                     /\ hist[p].decode_args # NoneD =>
                           /\ hist[p].unverified_header # NoneD
                           /\ hist[p].decode_args.key.kid =
                                 DictGet(hist[p].unverified_header, "kid", NoneS)

-----------------------------------------------------------------------------
(* Arguments of the verify step *)

\* the value a call works with: its argument when that is a non-empty
\* string, else the environment variable, else the default
Effective(arg, variable, default) ==
    IF arg \notin {NoneS, ""} THEN arg
    ELSE IF variable \in DOMAIN env THEN env[variable]
    ELSE default

\* C20: whenever validate_jwt_token calls jwt.decode it passes the token of
\* the request, the algorithm list ["RS256"], as audience this call's
\* effective app_client_id and as issuer
\* https://cognito-idp.{region}.amazonaws.com/{user_pool_id} with this call's
\* effective region and user_pool_id, whatever pool the cached key set was
\* fetched for.
C20_VerifyArguments ==
    \A p \in Procs :
        hist[p].decode_args # NoneD =>
            /\ call[p].fn = "validate_jwt_token"
            /\ hist[p].decode_args.algorithms = <<"RS256">>
            /\ hist[p].decode_args.audience =
                   Effective(call[p].app_client_id, "COGNITO_APP_CLIENT_ID", "")
            /\ hist[p].decode_args.issuer =
                   << "https://cognito-idp.",
                      Effective(call[p].region, "COGNITO_REGION", "us-west-2"),
                      ".amazonaws.com/",
                      Effective(call[p].user_pool_id, "COGNITO_USER_POOL_ID", "") >>
            /\ hist[p].decode_args.audience # ""
            /\ hist[p].decode_args.issuer[4] # ""

\* a call found the cache populated by an earlier call for the pool of the
\* environment, named another pool and region itself, and reached jwt.decode
C20_Witness ==
    /\ Ended(MainProc, "validate_jwt_token")
    /\ SawPopulated(MainProc)
    /\ hist[MainProc].decode_args # NoneD
    /\ cache_pool = "pool-env"
    /\ call[MainProc].user_pool_id = "pool-arg"
    /\ call[MainProc].region = "us-east-1"
    /\ hist[MainProc].decode_args.issuer =
           <<"https://cognito-idp.", "us-east-1", ".amazonaws.com/", "pool-arg">>

-----------------------------------------------------------------------------
(* The key of the verify step *)

\* the positions of key list keys whose entry carries the key-id kid
Matches(keys, kid) ==
    {i \in DOMAIN keys : "kid" \in DOMAIN keys[i] /\ keys[i].kid = kid}

\* C21: the key passed to jwt.decode is an entry of the key set that
\* get_jwks returned to this call, its kid is the kid of the token's
\* unverified header, and it stands at the first position of the key list
\* that carries this kid.
C21_FirstMatchingKey ==
    \A p \in Procs :
        hist[p].decode_args # NoneD =>
            /\ loc[p].jwks # NoneD
            /\ "keys" \in DOMAIN loc[p].jwks
            /\ hist[p].unverified_header # NoneD
            /\ "kid" \in DOMAIN hist[p].unverified_header
            /\ LET keys == loc[p].jwks.keys
                   found == Matches(keys, hist[p].unverified_header.kid)
               IN  /\ found # {}
                   /\ hist[p].decode_args.key =
                         keys[CHOOSE i \in found : \A j \in found : i <= j]

\* the key set held two entries with the kid of the token, and the verify
\* step was given the first
C21_Witness ==
    /\ Ended(MainProc, "validate_jwt_token")
    /\ hist[MainProc].decode_args # NoneD
    /\ Cardinality(Matches(loc[MainProc].jwks.keys,
                           hist[MainProc].unverified_header.kid)) = 2
    /\ hist[MainProc].decode_args.key = loc[MainProc].jwks.keys[1]
    /\ hist[MainProc].decode_args.key # loc[MainProc].jwks.keys[2]

-----------------------------------------------------------------------------
(* Effective configuration *)

\* the call in slot p built the key-set URL (line 44)
BuiltUrl(p) == loc[p].jwks_url # <<>>

\* the validate_jwt_token call in slot p got past lines 95-98
PastConfiguration(p) == call[p].fn = "validate_jwt_token" /\ hist[p].seen # Unread

\* C22: each field of the configuration a call works with is its explicit
\* argument when one is supplied, else the value of COGNITO_REGION,
\* COGNITO_USER_POOL_ID or COGNITO_APP_CLIENT_ID, the region being
\* "us-west-2" when neither is there: the URL get_jwks builds and the values
\* validate_jwt_token holds after its configuration check are made of these,
\* so a supplied argument is used whatever the environment says, and the
\* configuration error of get_jwks is raised exactly for an empty pool.
C22_EffectiveConfiguration ==
    \A p \in Procs :
        LET region == Effective(call[p].region, "COGNITO_REGION", "us-west-2")
            pool == Effective(call[p].user_pool_id, "COGNITO_USER_POOL_ID", "")
            client == Effective(call[p].app_client_id, "COGNITO_APP_CLIENT_ID", "")
        IN  /\ BuiltUrl(p) =>
                 /\ loc[p].jwks_url = << "https://cognito-idp.", region, ".amazonaws.com/",
                                         pool, "/.well-known/jwks.json" >>
                 /\ call[p].region \notin {NoneS, ""} => loc[p].jwks_url[2] = call[p].region
                 /\ call[p].user_pool_id \notin {NoneS, ""} =>
                        loc[p].jwks_url[4] = call[p].user_pool_id
            /\ PastConfiguration(p) =>
                 /\ loc[p].cognito_region = region
                 /\ loc[p].cognito_user_pool_id = pool
                 /\ loc[p].cognito_app_client_id = client
                 /\ pool # "" /\ client # ""
            /\ (call[p].fn = "get_jwks" /\ SawEmpty(p)) =>
                 (pool = "" <=> (pc[p] = "done" /\ result[p] = ValueError(PoolRequired)))
            /\ (call[p].fn = "get_jwks" /\ SawEmpty(p) /\ pool # "") => BuiltUrl(p)

\* with COGNITO_REGION and COGNITO_USER_POOL_ID set, a get_jwks call that
\* named another region and pool fetched from the URL of its arguments
C22_Witness ==
    /\ Ended(MainProc, "get_jwks")
    /\ "COGNITO_REGION" \in DOMAIN env
    /\ "COGNITO_USER_POOL_ID" \in DOMAIN env
    /\ call[MainProc].region = "us-east-1"
    /\ call[MainProc].user_pool_id = "pool-arg"
    /\ hist[MainProc].fetched
    /\ loc[MainProc].jwks_url[2] = "us-east-1"
    /\ loc[MainProc].jwks_url[4] = "pool-arg"

-----------------------------------------------------------------------------
(* The fixture *)

\* successful fetches since the session began
TotalFetches == harness.fetches + fetches

\* C23: the cache is empty from a reset until the next successful fetch, so
\* the first get_jwks call after a reset reads it as empty; a get_jwks call
\* that reads the cache as empty and has a non-empty user pool goes to the
\* network, and when it returns it returns the document it fetched itself,
\* which is then what the cache holds, whatever the cache held before the
\* reset; and the successful fetches of a session are at most one more than
\* the resets.
C23_FreshFetchAfterReset ==
    /\ fetches = 0 => jwks_cache = NoneD
    /\ \A p \in Procs :
          (call[p].fn = "get_jwks" /\ SawEmpty(p)) =>
             /\ Effective(call[p].user_pool_id, "COGNITO_USER_POOL_ID", "") # "" =>
                   /\ BuiltUrl(p)
                   /\ pc[p] = "done" => hist[p].fetched
             /\ (pc[p] = "done" /\ ~IsException(result[p])) =>
                   /\ hist[p].fetched /\ hist[p].stored
                   /\ result[p] = Return(loc[p].body)
                   /\ jwks_cache = loc[p].body
    /\ TotalFetches <= 1 + harness.resets

\* the cache held one key set, was reset, and the next get_jwks call fetched
\* and returned another one: the second fetch of the session
C23_Witness ==
    /\ harness.resets = 1
    /\ harness.held \in KeySets
    /\ Ended(MainProc, "get_jwks")
    /\ SawEmpty(MainProc)
    /\ hist[MainProc].fetched
    /\ result[MainProc] = Return(loc[MainProc].body)
    /\ loc[MainProc].body \in KeySets
    /\ loc[MainProc].body # harness.held
    /\ TotalFetches = 2

-----------------------------------------------------------------------------
(* Failed fetches *)

\* the call in slot p ended because its key-set fetch failed (transport
\* error, error status or unparsable body)
FetchFailed(p) == pc[p] = "done" /\ hist[p].inner \in FetchErrors

\* the call in slot p has a user pool to fetch the key set of
HasPool(p) ==
    \/ call[p].fn = "validate_jwt_token"
    \/ Effective(call[p].user_pool_id, "COGNITO_USER_POOL_ID", "") # ""

\* C24: a call whose key-set fetch fails has not written the cache, and the
\* cache stays empty until a later call writes it; the call made next, once
\* it reads the cache, reads it as empty and, having a user pool, goes to
\* the network again; and when its fetch succeeds the cache holds the
\* document it fetched.
C24_FailureNotCached ==
    \A p \in Procs :
        FetchFailed(p) =>
            /\ SawEmpty(p)
            /\ ~hist[p].stored
            /\ loc[p].body = NoneD
            /\ (\A q \in Procs : q > p => ~hist[q].stored) => jwks_cache = NoneD
            /\ \A q \in Procs :
                  (q = p + 1 /\ hist[q].seen # Unread) =>
                     /\ SawEmpty(q)
                     /\ HasPool(q) => BuiltUrl(q)
                     /\ (HasPool(q) /\ pc[q] = "done") => hist[q].fetched
                     /\ hist[q].stored =>
                           /\ loc[q].body # NoneD
                           /\ jwks_cache = loc[q].body

\* the first call's fetch failed, the second call fetched a key set and
\* returned it, and the cache holds it
C24_Witness ==
    \E p, q \in Procs :
        /\ q = p + 1
        /\ FetchFailed(p)
        /\ Ended(q, "get_jwks")
        /\ hist[q].fetched /\ hist[q].stored
        /\ jwks_cache \in KeySets
        /\ result[q] = Return(jwks_cache)

-----------------------------------------------------------------------------
(* Outcomes of the try block *)

\* C25: a validate_jwt_token call with a well-formed bearer header and a
\* non-empty user pool and app client ends by returning the claims of the
\* verify step or by raising UnauthorizedError; an exception raised inside
\* the try block that is neither an UnauthorizedError nor a JWTError (a
\* failed fetch, a key set without "keys", a key without "kid", a fault of
\* the engine) reaches the caller as
\* UnauthorizedError("Token validation failed").
C25_OnlyClaimsOrUnauthorized ==
    \A p \in Procs :
        (/\ Ended(p, "validate_jwt_token")
         /\ HeaderWellFormed(call[p].event)
         /\ Configured(call[p].user_pool_id, "COGNITO_USER_POOL_ID")
         /\ Configured(call[p].app_client_id, "COGNITO_APP_CLIENT_ID")) =>
            /\ \/ result[p].kind = "return" /\ result[p].value \in ClaimSets
               \/ result[p].kind = "raise" /\ result[p].type = "UnauthorizedError"
            /\ (/\ IsException(hist[p].inner)
                /\ hist[p].inner.type \notin JWTErrorTypes \cup {"UnauthorizedError"}) =>
                  result[p] = UnauthorizedError("Token validation failed")
            /\ result[p].kind = "return" => ~IsException(hist[p].inner)

\* the endpoint served a document without a "keys" list, and the KeyError of
\* the key lookup reached the caller as the generic UnauthorizedError
C25_Witness ==
    /\ Ended(MainProc, "validate_jwt_token")
    /\ hist[MainProc].fetched
    /\ loc[MainProc].jwks = EmptyDict
    /\ hist[MainProc].inner = Raise("KeyError", "keys")
    /\ result[MainProc] = UnauthorizedError("Token validation failed")

====
